---- MODULE Spec2Model ----
(***************************************************************************)
(* A model of crown's UnitManager (src/src/world/unit_manager.cpp), the    *)
(* generational-index allocator of unit ids, and of its UnitCompiler       *)
(* (src/src/resource/unit_compiler.h), the offline compiler of unit        *)
(* definitions into one resource blob.                                     *)
(*                                                                         *)
(* Sequences are 1-based here and 0-based in the source: slot idx of the   *)
(* source is element idx + 1 of the sequence that models the array.        *)
(***************************************************************************)
EXTENDS Integers, Sequences, FiniteSets, TLC

(***************************************************************************)
(* Bounds of the exploration.                                              *)
(* MINIMUM_FREE_INDICES is 1024 in the source (unit_manager.cpp:11) and    *)
(* UNIT_INDEX_BITS is the width of the index field of a UnitId; both are   *)
(* scaled down so that the recycling path of create is reached, and every  *)
(* property below is checked for the scaled value and for the next one.    *)
(***************************************************************************)
MINIMUM_FREE_INDICES == 1
UNIT_INDEX_BITS == 2
\* Slots the generation table may grow to under Spec.
MaxSlots == 2
\* Entries the free-index queue may grow to under Spec.
MaxQueue == 3
\* Destroys explored per slot under Spec (SpecWrap explores all 2^8).
MaxGen == 2
\* Subscriptions registered at one time.
MaxCallbacks == 3

\* _generation is an Array<u8>: a generation counter wraps at 2^8.
GenerationMod == 256

\* The opaque context pointers (user_data) and the callbacks of the clients.
UserData == {"w1", "w2", "w3"}
DestroyFunctions == {"unit_destroyed_callback"}

\* Generations of the ids whose later history is followed (the first one a
\* slot hands out and the last one before its counter wraps).
TrackedGens == {0, GenerationMod - 1}

VARIABLES
    _generation,        \* UnitManager::_generation
    _free_indices,      \* UnitManager::_free_indices
    _destroy_callbacks, \* UnitManager::_destroy_callbacks
    fatal,              \* "none", or the message of the CE_ASSERT/CE_FATAL that ended the program
    last,               \* the last call made and what it returned
    invoked,            \* the callbacks the last destroy invoked, in order
    held,               \* ids returned by create and not destroyed since
    stale,              \* per slot, the id the client destroyed last
    track,              \* one destroyed id and the number of destroys of its slot since
    regOrder,           \* the registered subscriptions in the order of their registration
    swapped,            \* an unregister has moved a subscription into another's slot
    _num_units,         \* UnitCompiler::_num_units
    _component_data,    \* UnitCompiler::_component_data
    _component_info,    \* UnitCompiler::_component_info
    ucLast,             \* the last call made on the compiler and how it ended
    units,              \* the component lists of the units compiled without error, in order
    aborts,             \* the number of compile_unit calls a compile error ended
    out,                \* the Buffer the last blob() returned
    ucCalls             \* the register_component_compiler and compile_unit calls made, in order

umVars == <<_generation, _free_indices, _destroy_callbacks, fatal, last, invoked,
            held, stale, track, regOrder, swapped>>

ucVars == <<_num_units, _component_data, _component_info, ucLast, units, aborts, out,
            ucCalls>>

vars == <<umVars, ucVars>>

----------------------------------------------------------------------------
(* UnitId: an index of UNIT_INDEX_BITS bits below a generation of 8 bits.  *)

RECURSIVE BitOr(_, _)
BitOr(a, b) ==
    IF a = 0 THEN b
    ELSE IF b = 0 THEN a
    ELSE (IF a % 2 = 1 \/ b % 2 = 1 THEN 1 ELSE 0) + 2 * BitOr(a \div 2, b \div 2)

IndexLimit == 2 ^ UNIT_INDEX_BITS

\* make_unit with the generation one bit higher.
make_unit_shifted(idx, gen) == BitOr(BitOr(0, idx), gen * (2 * IndexLimit))

\* UnitId id = { 0 | idx | u32(gen) << UNIT_INDEX_BITS }
make_unit(idx, gen) == BitOr(BitOr(0, idx), gen * IndexLimit)

\* UnitId::index(): the low UNIT_INDEX_BITS bits.
UnitIndex(id) == id % IndexLimit

\* UnitId::id(): the 8 bits above the index.
UnitGen(id) == (id \div IndexLimit) % GenerationMod

\* A comparison that also accepts an id older than the slot's generation.
alive_or_older(id) == _generation[UnitIndex(id) + 1] >= UnitGen(id)

\* return _generation[id.index()] == id.id();
alive(id) == _generation[UnitIndex(id) + 1] = UnitGen(id)

----------------------------------------------------------------------------
(* UnitManager                                                             *)

NoCall == [op |-> "none"]
NoTrack == [on |-> FALSE]

UMInit ==
    /\ _generation = <<>>
    /\ _free_indices = <<>>
    /\ _destroy_callbacks = <<>>
    /\ fatal = "none"
    /\ last = NoCall
    /\ invoked = <<>>
    /\ held = {}
    /\ stale = {}
    /\ track = NoTrack
    /\ regOrder = <<>>
    /\ swapped = FALSE

\* CE_FATAL(msg): the program ends with msg.
CE_FATAL(msg) == msg

\* CE_ASSERT(condition, msg): the program ends with msg unless condition holds.
CE_ASSERT(condition, msg) == IF condition THEN "none" ELSE CE_FATAL(msg)

\* The bound of the index with <= for <.
IndexInBoundsInclusive(idx) == idx <= IndexLimit

\* idx < (1 << UNIT_INDEX_BITS)
IndexInBounds(idx) == idx < IndexLimit

\* A create that recycles whenever an index is queued.
ShouldRecycleAny(free) == Len(free) > 0

\* The recycling condition with >= for >.
ShouldRecycleLowerMark(free) == Len(free) >= MINIMUM_FREE_INDICES

\* if (queue::size(_free_indices) > MINIMUM_FREE_INDICES)
ShouldRecycle(free) == Len(free) > MINIMUM_FREE_INDICES

\* A generation that advances by two.
NextGenerationTwice(g) == (g + 2) % GenerationMod
\* A generation that stays at its maximum instead of wrapping.
NextGenerationSticky(g) == IF g = GenerationMod - 1 THEN g ELSE g + 1

\* ++_generation[idx] on a u8
NextGeneration(g) == (g + 1) % GenerationMod

\* The index taken from the back of the queue instead.
RecycledIndexBack(free) == free[Len(free)]

\* idx = queue::front(_free_indices); queue::pop_front(_free_indices);
RecycledIndex(free) == Head(free)

\* A new slot that starts at generation 1.
PushBackOne(generation) == Append(generation, 1)

\* array::push_back(_generation, u8(0))
PushBackZero(generation) == Append(generation, 0)

\* A queue whose front is read and left in place.
PeekFront(free) == free

\* queue::pop_front(_free_indices)
PopFront(free) == Tail(free)

\* A loop that stops one callback early.
trigger_skip_last(cbs, id) ==
    [i \in 1..(IF Len(cbs) > 1 THEN Len(cbs) - 1 ELSE Len(cbs)) |->
        [destroy |-> cbs[i].destroy, user_data |-> cbs[i].user_data, id |-> id]]

\* for (i = 0; i < size(_destroy_callbacks); ++i) _destroy_callbacks[i].destroy(id, user_data)
trigger_destroy_callbacks(cbs, id) ==
    [i \in 1..Len(cbs) |->
        [destroy |-> cbs[i].destroy, user_data |-> cbs[i].user_data, id |-> id]]

\* UnitId UnitManager::create()
create ==
    /\ fatal = "none"
    /\ invoked' = <<>>
    /\ UNCHANGED <<_destroy_callbacks, stale, track, regOrder, swapped>>
    /\ IF ShouldRecycle(_free_indices)
       THEN LET idx == RecycledIndex(_free_indices)
                id == make_unit(idx, _generation[idx + 1])
            IN  /\ _free_indices' = PopFront(_free_indices)
                /\ UNCHANGED <<_generation, fatal>>
                /\ last' = [op |-> "create", id |-> id, idx |-> idx, recycled |-> TRUE]
                /\ held' = held \cup {id}
       ELSE LET idx == Len(_generation)
                id == make_unit(idx, 0)
            IN  /\ _generation' = PushBackZero(_generation)
                /\ UNCHANGED _free_indices
                /\ fatal' = CE_ASSERT(IndexInBounds(idx), "Indices out of bounds")
                /\ IF fatal' = "none"
                   THEN /\ last' = [op |-> "create", id |-> id, idx |-> idx,
                                    recycled |-> FALSE]
                        /\ held' = held \cup {id}
                   ELSE /\ last' = [op |-> "create_failed"]
                        /\ UNCHANGED held

\* The callbacks invoked before the table and the queue are written.
CallbackViewEarly(before, after) == before

\* trigger_destroy_callbacks(id) is the last statement of destroy: a callback
\* reads the table and the queue as ++_generation[idx] and push_back left them.
CallbackView(before, after) == after

\* void UnitManager::destroy(UnitId id)
destroy(id) ==
    LET idx == UnitIndex(id) IN
    /\ fatal = "none"
    /\ _generation' = [_generation EXCEPT ![idx + 1] = NextGeneration(@)]
    /\ _free_indices' = Append(_free_indices, idx)
    /\ invoked' = trigger_destroy_callbacks(_destroy_callbacks, id)
    /\ last' = [op |-> "destroy", id |-> id, idx |-> idx, matching |-> id \in held,
                seen |-> CallbackView(
                    [_generation |-> _generation, _free_indices |-> _free_indices],
                    [_generation |-> _generation', _free_indices |-> _free_indices'])]
    /\ held' = held \ {id}
    /\ stale' = {s \in stale : UnitIndex(s) # idx} \cup {id}
    /\ \/ /\ track.on
          /\ track' = IF UnitIndex(track.id) = idx
                      THEN [track EXCEPT !.n = (@ + 1) % GenerationMod]
                      ELSE track
       \/ /\ ~track.on
          /\ track' = NoTrack
       \/ /\ ~track.on
          /\ id \in held
          /\ UnitGen(id) \in TrackedGens
          /\ track' = [on |-> TRUE, id |-> id, n |-> 1]
    /\ UNCHANGED <<_destroy_callbacks, fatal, regOrder, swapped>>

\* bool UnitManager::alive(UnitId id) const, called by a client.
alive_query(id) ==
    /\ fatal = "none"
    /\ last' = [op |-> "alive", id |-> id, result |-> alive(id)]
    /\ invoked' = <<>>
    /\ UNCHANGED <<_generation, _free_indices, _destroy_callbacks, fatal, held, stale,
                   track, regOrder, swapped>>

\* void UnitManager::register_destroy_function(DestroyFunction fn, void* user_data)
register_destroy_function(fn, user_data) ==
    LET dd == [destroy |-> fn, user_data |-> user_data] IN
    /\ fatal = "none"
    /\ _destroy_callbacks' = Append(_destroy_callbacks, dd)
    /\ regOrder' = Append(regOrder, dd)
    /\ last' = [op |-> "register", user_data |-> user_data]
    /\ invoked' = <<>>
    /\ UNCHANGED <<_generation, _free_indices, fatal, held, stale, track, swapped>>

\* A search that settles for the first subscription when none matches.
FirstWithOrFirst(list, user_data) ==
    LET hits == {i \in 1..Len(list) : list[i].user_data = user_data}
    IN  IF hits = {} THEN (IF Len(list) > 0 THEN 1 ELSE 0)
        ELSE CHOOSE i \in hits : \A j \in hits : i <= j

\* The slot of the first subscription of `list` whose user_data is `user_data`
\* (0: none).
FirstWith(list, user_data) ==
    LET hits == {i \in 1..Len(list) : list[i].user_data = user_data}
    IN  IF hits = {} THEN 0 ELSE CHOOSE i \in hits : \A j \in hits : i <= j

\* A removal that closes the gap by moving every later subscription down.
ShiftRemove(list, i) ==
    [j \in 1..(Len(list) - 1) |-> IF j < i THEN list[j] ELSE list[j + 1]]

\* _destroy_callbacks[i] = _destroy_callbacks[n - 1]; array::pop_back(_destroy_callbacks);
SwapRemove(list, i) ==
    [j \in 1..(Len(list) - 1) |-> IF j = i THEN list[Len(list)] ELSE list[j]]

\* void UnitManager::unregister_destroy_function(void* user_data)
unregister_destroy_function(user_data) ==
    LET i == FirstWith(_destroy_callbacks, user_data)
        r == FirstWith(regOrder, user_data)
    IN
    /\ fatal = "none"
    /\ invoked' = <<>>
    /\ UNCHANGED <<_generation, _free_indices, held, stale, track>>
    /\ IF i # 0
       THEN /\ _destroy_callbacks' = SwapRemove(_destroy_callbacks, i)
            /\ regOrder' = [j \in 1..(Len(regOrder) - 1) |->
                                IF j < r THEN regOrder[j] ELSE regOrder[j + 1]]
            /\ swapped' = (swapped \/ i < Len(_destroy_callbacks) - 1)
            /\ last' = [op |-> "unregister", user_data |-> user_data]
            /\ UNCHANGED fatal
       ELSE /\ fatal' = CE_FATAL("Unknown destroy function")
            /\ last' = [op |-> "unregister_failed", user_data |-> user_data]
            /\ UNCHANGED <<_destroy_callbacks, regOrder, swapped>>

\* trigger_destroy_callbacks(id) from slot i on, when the callbacks of the
\* contexts in `leaving` call unregister_destroy_function(their own context):
\* the loop reads array::size(_destroy_callbacks) anew in every round and goes
\* on at i + 1, whatever the callback has moved into slot i.
RECURSIVE TriggerFrom(_, _, _, _)
TriggerFrom(cbs, i, id, leaving) ==
    IF i >= Len(cbs) THEN [callbacks |-> cbs, invoked |-> <<>>]
    ELSE LET dd == cbs[i + 1]
             after == IF dd.user_data \in leaving
                      THEN SwapRemove(cbs, FirstWith(cbs, dd.user_data))
                      ELSE cbs
             rest == TriggerFrom(after, i + 1, id, leaving)
         IN  [callbacks |-> rest.callbacks,
              invoked |-> <<[destroy |-> dd.destroy, user_data |-> dd.user_data,
                             id |-> id]>> \o rest.invoked]

\* void UnitManager::destroy(UnitId id), with callbacks that unregister
\* themselves while they are notified.
destroy_leaving(id, leaving) ==
    LET idx == UnitIndex(id)
        r == TriggerFrom(_destroy_callbacks, 0, id, leaving)
        left == {r.invoked[n].user_data : n \in 1..Len(r.invoked)} \cap leaving
    IN
    /\ fatal = "none"
    /\ _generation' = [_generation EXCEPT ![idx + 1] = NextGeneration(@)]
    /\ _free_indices' = Append(_free_indices, idx)
    /\ _destroy_callbacks' = r.callbacks
    /\ invoked' = r.invoked
    /\ last' = [op |-> "destroy", id |-> id, idx |-> idx, matching |-> id \in held,
                leaving |-> leaving, registered |-> _destroy_callbacks]
    /\ held' = held \ {id}
    /\ stale' = {s \in stale : UnitIndex(s) # idx} \cup {id}
    /\ regOrder' = SelectSeq(regOrder, LAMBDA dd : dd.user_data \notin left)
    /\ swapped' = (swapped \/ left # {})
    /\ UNCHANGED <<fatal, track>>

----------------------------------------------------------------------------
(* UnitCompiler                                                            *)

\* JsonObject prefabs[4]
MaxPrefabs == 4
\* ur.version = RESOURCE_VERSION_UNIT
RESOURCE_VERSION_UNIT == 1
\* sizeof(u32); sizeof(UnitResource) and sizeof(ComponentData) are three u32
\* each, and alignof(ComponentData) is that of a u32.
SizeofU32 == 4
SizeofUnitResource == 3 * SizeofU32
SizeofComponentData == 3 * SizeofU32
AlignofComponentData == SizeofU32
\* component_index: return UINT32_MAX. Any value that is no index of a
\* component list stands for it.
UINT32_MAX == 0 - 1

\* The component compilers the constructor registers, in its order, with the
\* spawn order of each.
Registrations ==
    << [type |-> "transform",               fn |-> "compile_transform",               spawn_order |-> 0],
       [type |-> "camera",                  fn |-> "compile_camera",                  spawn_order |-> 1],
       [type |-> "mesh_renderer",           fn |-> "compile_mesh_renderer",           spawn_order |-> 1],
       [type |-> "sprite_renderer",         fn |-> "compile_sprite_renderer",         spawn_order |-> 1],
       [type |-> "light",                   fn |-> "compile_light",                   spawn_order |-> 1],
       [type |-> "script",                  fn |-> "compile_script",                  spawn_order |-> 1],
       [type |-> "collider",                fn |-> "compile_collider",                spawn_order |-> 1],
       [type |-> "actor",                   fn |-> "compile_actor",                   spawn_order |-> 2],
       [type |-> "joint",                   fn |-> "compile_joint",                   spawn_order |-> 3],
       [type |-> "animation_state_machine", fn |-> "compile_animation_state_machine", spawn_order |-> 1] >>

\* StringId32(name): the 32-bit hash of a type name. The hash function is no
\* part of the compiler; distinct small numbers, in an order that is neither
\* that of the registrations nor that of the spawn orders, stand for its values.
StringId32(name) ==
    CASE name = "transform"               -> 70
      [] name = "camera"                  -> 30
      [] name = "mesh_renderer"           -> 90
      [] name = "sprite_renderer"         -> 20
      [] name = "light"                   -> 60
      [] name = "script"                  -> 100
      [] name = "collider"                -> 10
      [] name = "actor"                   -> 80
      [] name = "joint"                   -> 40
      [] name = "animation_state_machine" -> 50
      [] OTHER                            -> 1000

\* ComponentTypeData(Allocator& a): _num(0), empty _unit_index and _data; the
\* constructor leaves _compiler unset.
ComponentTypeData ==
    [_compiler |-> "unset", _num |-> 0, _unit_index |-> <<>>, _data |-> <<>>]

\* sort_map::has(_component_data, type)
SortMapHas(map, key) == key \in DOMAIN map

\* sort_map::get(_component_data, type, deffault)
SortMapGet(map, key, deffault) == IF key \in DOMAIN map THEN map[key] ELSE deffault

\* sort_map::set(_component_data, type, ctd); sort_map::sort(_component_data);
SortMapSet(map, key, value) ==
    [k \in DOMAIN map \cup {key} |-> IF k = key THEN value ELSE map[k]]

\* ComponentTypeInfo::operator<: by spawn order, then by type hash.
InfoLess(a, b) ==
    \/ a._spawn_order < b._spawn_order
    \/ a._spawn_order = b._spawn_order /\ a._type < b._type

\* The entry put behind the entries of its spawn order and of lower ones,
\* whatever their types.
InsertBySpawnOrder(info, cti) ==
    LET n == Cardinality({i \in 1..Len(info) : info[i]._spawn_order <= cti._spawn_order})
    IN  [i \in 1..(Len(info) + 1) |->
            IF i <= n THEN info[i] ELSE IF i = n + 1 THEN cti ELSE info[i - 1]]

\* The push_back without the std::sort.
PushBackUnsorted(info, cti) == Append(info, cti)

\* array::push_back(_component_info, cti); std::sort(begin, end);
SortedInsert(info, cti) ==
    LET before == {i \in 1..Len(info) : ~InfoLess(cti, info[i])}
        n == Cardinality(before)
    IN  [i \in 1..(Len(info) + 1) |->
            IF i <= n THEN info[i] ELSE IF i = n + 1 THEN cti ELSE info[i - 1]]

\* void UnitCompiler::register_component_compiler(StringId32 type, CompileFunction fn, f32 spawn_order)
register_component_compiler(cdata, info, type, fn, spawn_order) ==
    [data |-> SortMapSet(cdata, type, [ComponentTypeData EXCEPT !._compiler = fn]),
     info |-> SortedInsert(info, [_type |-> type, _spawn_order |-> spawn_order])]

\* UnitCompiler::UnitCompiler: the first n registrations of the constructor.
RegisterFirst[n \in 0..Len(Registrations)] ==
    IF n = 0 THEN [data |-> << >>, info |-> << >>]
    ELSE LET st == RegisterFirst[n - 1]
         IN  register_component_compiler(st.data, st.info,
                StringId32(Registrations[n].type), Registrations[n].fn,
                Registrations[n].spawn_order)

NoCompile == [op |-> "none"]

UCInit ==
    /\ _num_units = 0
    /\ _component_data = RegisterFirst[Len(Registrations)].data
    /\ _component_info = RegisterFirst[Len(Registrations)].info
    /\ ucLast = NoCompile
    /\ units = <<>>
    /\ aborts = 0
    /\ out = <<>>
    /\ ucCalls = [n \in 1..Len(Registrations) |->
                    [op |-> "register", type |-> Registrations[n].type,
                     fn |-> Registrations[n].fn,
                     spawn_order |-> Registrations[n].spawn_order]]

\* DATA_COMPILER_ASSERT(condition, opts, msg): a failed assert reports msg and
\* ends the compilation of the unit ("none": it holds, and the code goes on).
DATA_COMPILER_ASSERT(condition, msg) == IF condition THEN "none" ELSE msg

\* A component compiler (CompileFunction): the Buffer it returns for `json`,
\* or the DATA_COMPILER_ASSERT it fails on. A payload is written as the bytes
\* its compiler makes of it, and as not valid when its compiler refuses it (an
\* unknown projection or light type, a resource that does not exist).
CallCompiler(fn, json) ==
    [error |-> DATA_COMPILER_ASSERT(json.valid, "Content error"),
     called |-> TRUE,
     buf |-> IF json.valid THEN json.bytes ELSE <<>>]

\* compile_component without its DATA_COMPILER_ASSERT.
compile_component_unchecked(cdata, type, json) ==
    CallCompiler(SortMapGet(cdata, type, ComponentTypeData)._compiler, json)

\* Buffer UnitCompiler::compile_component(StringId32 type, const char* json)
compile_component(cdata, type, json) ==
    LET error == DATA_COMPILER_ASSERT(SortMapHas(cdata, type), "Unknown component")
    IN  IF error # "none"
        THEN [error |-> error, called |-> FALSE, buf |-> <<>>]
        ELSE CallCompiler(SortMapGet(cdata, type, ComponentTypeData)._compiler, json)

\* add_component_data without ++ctd._num.
add_component_data_uncounted(cdata, type, data, unit_index) ==
    IF type \in DOMAIN cdata
    THEN [cdata EXCEPT ![type] =
            [@ EXCEPT !._data = @ \o data,
                      !._unit_index = Append(@, unit_index)]]
    ELSE cdata

\* add_component_data that puts the owner index in front of the others.
add_component_data_in_front(cdata, type, data, unit_index) ==
    IF type \in DOMAIN cdata
    THEN [cdata EXCEPT ![type] =
            [@ EXCEPT !._data = @ \o data,
                      !._unit_index = <<unit_index>> \o @,
                      !._num = @ + 1]]
    ELSE cdata

\* void UnitCompiler::add_component_data(StringId32 type, const Buffer& data, u32 unit_index)
\* (for a type that is not registered, sort_map::get hands out the temporary
\* default and the pushes are lost with it)
add_component_data(cdata, type, data, unit_index) ==
    IF type \in DOMAIN cdata
    THEN [cdata EXCEPT ![type] =
            [@ EXCEPT !._data = @ \o data,
                      !._unit_index = Append(@, unit_index),
                      !._num = @ + 1]]
    ELSE cdata

\* const FixedString id(&key.data()[1], key.length()-1)
KeyId(key) == Tail(key)

\* guid::parse / sjson::parse_guid: a guid is written as one symbol here.
ParseGuid(text) == text[1]

\* component_index returning 0 where no component matches.
component_index_or_first(components, id) ==
    LET hits == {i \in 1..Len(components) : components[i].id = ParseGuid(id)}
    IN  IF hits = {} THEN 0
        ELSE (CHOOSE i \in hits : \A j \in hits : i <= j) - 1

\* component_index returning the last match.
component_index_last(components, id) ==
    LET hits == {i \in 1..Len(components) : components[i].id = ParseGuid(id)}
    IN  IF hits = {} THEN UINT32_MAX
        ELSE (CHOOSE i \in hits : \A j \in hits : j <= i) - 1

\* u32 component_index(const JsonArray& components, const FixedString& id)
component_index(components, id) ==
    LET hits == {i \in 1..Len(components) : components[i].id = ParseGuid(id)}
    IN  IF hits = {} THEN UINT32_MAX
        ELSE (CHOOSE i \in hits : \A j \in hits : i <= j) - 1

\* A merge that looks the identifier up in the working copy.
RECURSIVE ApplyModifiedOnWorking(_, _, _, _)
ApplyModifiedOnWorking(original, working, modified, n) ==
    IF n > Len(modified) THEN working
    ELSE LET comp_index == component_index(working, KeyId(modified[n].key))
         IN  ApplyModifiedOnWorking(original,
                IF comp_index # UINT32_MAX
                THEN [working EXCEPT ![comp_index + 1] = modified[n].value]
                ELSE working,
                modified, n + 1)

\* The entries of one modified_components object applied in the object's
\* order: prefab_root_components[comp_index] = value, when
\* component_index(prefab_root_components_original, id) finds the id.
RECURSIVE ApplyModified(_, _, _, _)
ApplyModified(original, working, modified, n) ==
    IF n > Len(modified) THEN working
    ELSE LET comp_index == component_index(original, KeyId(modified[n].key))
         IN  ApplyModified(original,
                IF comp_index # UINT32_MAX
                THEN [working EXCEPT ![comp_index + 1] = modified[n].value]
                ELSE working,
                modified, n + 1)

\* The levels taken from the leaf towards the root.
PrefabSlotLeafFirst(num_prefabs, i) == i + 1

\* const JsonObject& prefab = prefabs[num_prefabs - i - 1]; (as a slot of the
\* 1-based chain)
PrefabSlot(num_prefabs, i) == num_prefabs - i

\* for (u32 i = 0; i < num_prefabs; ++i): the levels from i on merged into
\* `working`.
RECURSIVE MergePrefabs(_, _, _, _)
MergePrefabs(prefabs, original, working, i) ==
    IF i >= Len(prefabs) THEN working
    ELSE LET prefab == prefabs[PrefabSlot(Len(prefabs), i)]
         IN  MergePrefabs(prefabs, original,
                IF prefab.has_modified_components
                THEN ApplyModified(original, working, prefab.modified_components, 1)
                ELSE working,
                i + 1)

\* The component list of a unit: prefab_root_components after the merge.
ResolveUnit(prefabs) ==
    LET prefab_root == prefabs[Len(prefabs)]
        original == prefab_root.components
    IN  IF Len(prefabs) > 1
        THEN MergePrefabs(prefabs, original, original, 0)
        ELSE original

\* The loop over prefab_root_components from component i on: each component
\* compiled and its data added under the owner index unit_index, up to the
\* first that fails.
RECURSIVE CompileComponents(_, _, _, _)
CompileComponents(cdata, components, i, unit_index) ==
    IF i > Len(components)
    THEN [cdata |-> cdata, error |-> "none", failedAt |-> 0, encoded |-> Len(components)]
    ELSE LET type == StringId32(components[i].type)
             buf == compile_component(cdata, type, components[i].data)
         IN  IF buf.error # "none"
             THEN [cdata |-> cdata, error |-> buf.error, failedAt |-> i,
                   encoded |-> (i - 1) + (IF buf.called THEN 1 ELSE 0)]
             ELSE CompileComponents(add_component_data(cdata, type, buf.buf, unit_index),
                                    components, i + 1, unit_index)

\* A counter advanced by the number of the unit's components.
AdvanceByComponents(num_units, components) == num_units + Len(components)

\* ++_num_units at the end of compile_unit_from_json, for a unit of
\* `components`.
AdvanceUnits(num_units, components) == num_units + 1

\* for (u32 i = 0; i < countof(prefabs); ++i, ++num_prefabs): the walk along
\* the prefab fields from prefabs[i] on. `documents` are json and the files
\* the prefab fields name, the leaf first; a prefab field that names no
\* document fails DATA_COMPILER_ASSERT_RESOURCE_EXISTS. The walk has no check
\* of i + 1 against countof(prefabs): from prefabs[MaxPrefabs - 1] it goes on
\* to prefabs[MaxPrefabs] and ends with num_prefabs = MaxPrefabs + 1.
RECURSIVE WalkPrefabs(_, _, _)
WalkPrefabs(documents, i, num_prefabs) ==
    IF i >= MaxPrefabs \/ ~documents[i + 1].has_prefab
    THEN [num_prefabs |-> num_prefabs, error |-> "none"]
    ELSE LET error == DATA_COMPILER_ASSERT(i + 2 <= Len(documents),
                                           "Resource does not exist")
         IN  IF error # "none"
             THEN [num_prefabs |-> num_prefabs, error |-> error]
             ELSE WalkPrefabs(documents, i + 1, num_prefabs + 1)

\* What a build may make of sjson::parse(d, prefabs[MaxPrefabs]) and of the
\* reads of that slot: the program is ended by the access, or the document is
\* kept in the memory behind the array and read back from it.
OverrunOutcomes == {"crash", "stored"}

\* void UnitCompiler::compile_unit_from_json(const char* json), for the
\* documents `prefabs` that json and the files its prefab fields name make
\* (the leaf first). A failed DATA_COMPILER_ASSERT leaves the function at
\* once: what was added before stays added and _num_units is not advanced.
compile_unit_from_json(prefabs) ==
    LET walk == WalkPrefabs(prefabs, 0, 1)
        Ended(error, outcome) ==
            /\ UNCHANGED <<_component_data, _num_units, _component_info, units>>
            /\ ucLast' = [op |-> "compile", error |-> error, failedAt |-> 0,
                          encoded |-> 0, prefabs |-> prefabs, components |-> <<>>,
                          num_prefabs |-> walk.num_prefabs, outcome |-> outcome]
            /\ aborts' = IF error = "none" THEN aborts ELSE aborts + 1
        Compiled(outcome) ==
            LET components == ResolveUnit(SubSeq(prefabs, 1, walk.num_prefabs))
                r == CompileComponents(_component_data, components, 1, _num_units)
            IN  /\ _component_data' = r.cdata
                /\ _num_units' = IF r.error = "none"
                                 THEN AdvanceUnits(_num_units, components)
                                 ELSE _num_units
                /\ UNCHANGED _component_info
                /\ ucLast' = [op |-> "compile", error |-> r.error, failedAt |-> r.failedAt,
                              encoded |-> r.encoded, prefabs |-> prefabs,
                              components |-> components,
                              num_prefabs |-> walk.num_prefabs, outcome |-> outcome]
                /\ units' = IF r.error = "none" THEN Append(units, components) ELSE units
                /\ aborts' = IF r.error = "none" THEN aborts ELSE aborts + 1
    IN  /\ IF walk.error # "none"
           THEN Ended(walk.error, "defined")
           ELSE IF walk.num_prefabs > MaxPrefabs
           THEN \E outcome \in OverrunOutcomes :
                    IF outcome = "crash" THEN Ended("none", outcome)
                    ELSE Compiled(outcome)
           ELSE Compiled("defined")
        /\ out' = <<>>
        /\ ucCalls' = Append(ucCalls, [op |-> "compile", prefabs |-> prefabs])

\* The members of the compiler that compile_unit_from_json writes.
Members == [data |-> _component_data, num_units |-> _num_units, units |-> units,
            aborts |-> aborts, passed |-> <<>>]

\* compile_unit_from_json(units[i]) as compile_multiple_units calls it, on the
\* members st of the compiler, for a chain no deeper than prefabs[]. `passed`
\* keeps, per call, the _num_units passed on as the owner index and whether
\* the unit was compiled to its end.
CompileUnitFromJson(st, prefabs) ==
    LET walk == WalkPrefabs(prefabs, 0, 1) IN
    IF walk.error # "none"
    THEN [st EXCEPT !.aborts = @ + 1,
                    !.passed = Append(@, [unit_index |-> st.num_units, compiled |-> FALSE])]
    ELSE LET components == ResolveUnit(SubSeq(prefabs, 1, walk.num_prefabs))
             r == CompileComponents(st.data, components, 1, st.num_units)
             compiled == r.error = "none"
         IN  [data |-> r.cdata,
              num_units |-> IF compiled THEN AdvanceUnits(st.num_units, components)
                            ELSE st.num_units,
              units |-> IF compiled THEN Append(st.units, components) ELSE st.units,
              aborts |-> IF compiled THEN st.aborts ELSE st.aborts + 1,
              passed |-> Append(st.passed, [unit_index |-> st.num_units,
                                            compiled |-> compiled])]

\* A loop in which every document is compiled on the members as they were
\* before the call.
CompileUnitsUnshared(st, documents, i) ==
    IF i >= Len(documents) THEN st
    ELSE CompileUnitFromJson(st, documents[Len(documents)])

\* for (u32 i = 0; i < array::size(units); ++i) compile_unit_from_json(units[i]);
RECURSIVE CompileUnitsFrom(_, _, _)
CompileUnitsFrom(st, documents, i) ==
    IF i >= Len(documents) THEN st
    ELSE CompileUnitsFrom(CompileUnitFromJson(st, documents[i + 1]), documents, i + 1)

\* void UnitCompiler::compile_multiple_units(const char* json), for the unit
\* documents `documents` of the array json holds, each with the files its
\* prefab fields name.
compile_multiple_units(documents) ==
    LET r == CompileUnitsFrom(Members, documents, 0)
    IN  /\ _component_data' = r.data
        /\ _num_units' = r.num_units
        /\ units' = r.units
        /\ aborts' = r.aborts
        /\ UNCHANGED _component_info
        /\ ucLast' = [op |-> "compile_multiple", documents |-> documents,
                      base |-> _num_units, passed |-> r.passed]
        /\ out' = <<>>
        /\ ucCalls' = ucCalls \o [n \in 1..Len(documents) |->
                                     [op |-> "compile", prefabs |-> documents[n]]]

\* array::push(buf, (char*)&x, sizeof(u32)): the four bytes of a u32, the
\* lowest first.
U32Bytes(x) ==
    << x % 256, (x \div 256) % 256, (x \div 65536) % 256, (x \div 16777216) % 256 >>

RECURSIVE U32ArrayBytes(_)
U32ArrayBytes(a) == IF a = <<>> THEN <<>> ELSE U32Bytes(Head(a)) \o U32ArrayBytes(Tail(a))

\* A padding loop that pushes nothing.
NoZeros(n) == <<>>

Zeros(n) == [i \in 1..n |-> 0]

\* The padding that brings a section of `size` bytes to a multiple of the
\* alignment of ComponentData.
PadAligning(size) ==
    (AlignofComponentData - (size % AlignofComponentData)) % AlignofComponentData

\* const u32 pad = cd.size % alignof(cd);
Pad(size) == size % AlignofComponentData

\* The section blob() writes for one component type (nothing when the type
\* has no instance).
SectionBytes(type, ctd) ==
    IF ctd._num > 0
    THEN LET size == Len(ctd._data) + SizeofU32 * Len(ctd._unit_index)
             pad == Pad(size)
         IN  U32Bytes(type) \o U32Bytes(ctd._num) \o U32Bytes(size + pad)
                 \o U32ArrayBytes(ctd._unit_index) \o ctd._data \o Zeros(pad)
    ELSE <<>>

\* for (u32 i = 0; i < array::size(_component_info); ++i): the sections from
\* entry i of _component_info on.
RECURSIVE SectionsFrom(_, _, _)
SectionsFrom(cdata, info, i) ==
    IF i > Len(info) THEN <<>>
    ELSE SectionBytes(info[i]._type, SortMapGet(cdata, info[i]._type, ComponentTypeData))
            \o SectionsFrom(cdata, info, i + 1)

\* Buffer UnitCompiler::blob()
blob_bytes(num_units, cdata, info) ==
    LET num_component_types == Cardinality({t \in DOMAIN cdata : cdata[t]._num > 0})
    IN  U32Bytes(RESOURCE_VERSION_UNIT) \o U32Bytes(num_units)
            \o U32Bytes(num_component_types) \o SectionsFrom(cdata, info, 1)

\* A blob() that hands its accumulated data over: it returns the same bytes
\* and leaves every accumulator empty and the unit counter at 0.
blob_flushing ==
    /\ out' = blob_bytes(_num_units, _component_data, _component_info)
    /\ ucLast' = [op |-> "blob"]
    /\ _num_units' = 0
    /\ _component_data' = [t \in DOMAIN _component_data |->
                              [_component_data[t] EXCEPT !._data = <<>>,
                                                         !._unit_index = <<>>,
                                                         !._num = 0]]
    /\ UNCHANGED <<_component_info, units, aborts, ucCalls>>

blob ==
    /\ out' = blob_bytes(_num_units, _component_data, _component_info)
    /\ ucLast' = [op |-> "blob"]
    /\ UNCHANGED <<_num_units, _component_data, _component_info, units, aborts, ucCalls>>

(* A reader of the blob by the layout the format documents:                *)
(*   Header { version, num_units, num_component_types : u32 }              *)
(*   SectionHeader { type_hash, num_instances, section_size : u32 }        *)
(*   OwnerIndices [u32 ; num_instances]                                    *)
(*   Payload [byte ; section_size - 4 * num_instances]                     *)
U32At(bytes, offset) ==
    bytes[offset + 1] + 256 * bytes[offset + 2] + 65536 * bytes[offset + 3]
        + 16777216 * bytes[offset + 4]

RECURSIVE ReadSections(_, _, _)
ReadSections(bytes, offset, n) ==
    IF n = 0 \/ offset + SizeofComponentData > Len(bytes) THEN <<>>
    ELSE LET num == U32At(bytes, offset + SizeofU32)
             size == U32At(bytes, offset + 2 * SizeofU32)
             first == offset + SizeofComponentData
         IN  << [type |-> U32At(bytes, offset),
                 num_instances |-> num,
                 owners |-> [i \in 1..num |-> U32At(bytes, first + SizeofU32 * (i - 1))],
                 payload |-> SubSeq(bytes, first + SizeofU32 * num + 1, first + size)] >>
             \o ReadSections(bytes, first + size, n - 1)

ReadBlob(bytes) ==
    [version |-> U32At(bytes, 0),
     num_units |-> U32At(bytes, SizeofU32),
     num_component_types |-> U32At(bytes, 2 * SizeofU32),
     sections |-> ReadSections(bytes, SizeofUnitResource, U32At(bytes, 2 * SizeofU32))]

----------------------------------------------------------------------------
(* The clients of the allocator.                                           *)

\* create, while the table may still grow or an index can be recycled.
Create ==
    /\ ShouldRecycle(_free_indices) \/ Len(_generation) < MaxSlots
    /\ create
    /\ UNCHANGED ucVars

\* destroy of an id the client holds, or of one it has destroyed already.
Destroy ==
    \E id \in held \cup stale :
        /\ Len(_free_indices) < MaxQueue
        /\ _generation[UnitIndex(id) + 1] < MaxGen
        /\ destroy(id)
        /\ UNCHANGED ucVars

\* The contract leaves two subscriptions with one context undefined: a client
\* registers a context it has not registered.
Register ==
    \E fn \in DestroyFunctions, user_data \in UserData :
        /\ Len(_destroy_callbacks) < MaxCallbacks
        /\ \A i \in 1..Len(_destroy_callbacks) :
              _destroy_callbacks[i].user_data # user_data
        /\ register_destroy_function(fn, user_data)
        /\ UNCHANGED ucVars

Unregister ==
    \E user_data \in UserData :
        /\ unregister_destroy_function(user_data)
        /\ UNCHANGED ucVars

Init == UMInit /\ UCInit

Next ==
    \/ Create
    \/ Destroy

Spec == Init /\ [][Next]_vars

(* The subscription registry, on an allocator of few slots used to the     *)
(* letter.                                                                 *)
CreateFew ==
    /\ ShouldRecycle(_free_indices) \/ Len(_generation) < MINIMUM_FREE_INDICES + 1
    /\ create
    /\ UNCHANGED ucVars

DestroyNotify ==
    \E id \in held :
        /\ _generation[UnitIndex(id) + 1] < MaxGen
        /\ destroy(id)
        /\ UNCHANGED ucVars

NextCallbacks ==
    \/ CreateFew
    \/ DestroyNotify
    \/ Register
    \/ Unregister

SpecCallbacks == Init /\ [][NextCallbacks]_vars

(* Clients that ask for the liveness of the ids they hold or have          *)
(* destroyed, on an allocator used to the letter.                          *)
Alive ==
    \E id \in held \cup stale :
        /\ alive_query(id)
        /\ UNCHANGED ucVars

\* One subscription, made before the first unit is created.
RegisterEarly ==
    /\ _generation = <<>>
    /\ _destroy_callbacks = <<>>
    /\ Register

NextQuery ==
    \/ CreateFew
    \/ DestroyNotify
    \/ RegisterEarly
    \/ Alive

SpecQuery == Init /\ [][NextQuery]_vars

(* An allocator whose clients create units until the index space is used   *)
(* up; they destroy units only while the table has few more slots than     *)
(* recycling needs.                                                        *)
CreateAny ==
    /\ create
    /\ UNCHANGED ucVars

DestroySome ==
    \E id \in held :
        /\ Len(_generation) <= MINIMUM_FREE_INDICES + 2
        /\ Len(_free_indices) < MaxQueue
        /\ _generation[UnitIndex(id) + 1] < MaxGen
        /\ destroy(id)
        /\ UNCHANGED ucVars

NextExhaust ==
    \/ CreateAny
    \/ DestroySome

SpecExhaust == Init /\ [][NextExhaust]_vars

(* One allocator used to the letter: every destroy is of a held id, and the *)
(* table holds one slot more than the low-water mark, so that the slots are *)
(* recycled in turn through all 2^8 generations.                            *)
CreateWrap ==
    /\ ShouldRecycle(_free_indices) \/ Len(_generation) < MINIMUM_FREE_INDICES + 1
    /\ create
    /\ UNCHANGED ucVars

DestroyHeld ==
    \E id \in held :
        /\ destroy(id)
        /\ UNCHANGED ucVars

NextWrap ==
    \/ CreateWrap
    \/ DestroyHeld

SpecWrap == Init /\ [][NextWrap]_vars

(* Every operation of the allocator, on slots that are recycled in turn     *)
(* through all 2^8 generations.                                            *)
\* alive asked of the destroyed id whose slot is followed.
AliveTracked ==
    /\ track.on
    /\ alive_query(track.id)
    /\ UNCHANGED ucVars

NextAll ==
    \/ CreateWrap
    \/ DestroyHeld
    \/ RegisterEarly
    \/ Unregister
    \/ AliveTracked

SpecAll == Init /\ [][NextAll]_vars

(* Subscribers that unregister themselves from inside their callback.      *)
DestroyLeaving ==
    \E id \in held, leaving \in SUBSET UserData :
        /\ _generation[UnitIndex(id) + 1] < MaxGen
        /\ destroy_leaving(id, leaving)
        /\ UNCHANGED ucVars

NextLeaving ==
    \/ CreateFew
    \/ Register
    \/ DestroyLeaving

SpecLeaving == Init /\ [][NextLeaving]_vars

----------------------------------------------------------------------------
(* The documents given to the compiler.                                    *)

\* compile_unit calls made on one compiler under SpecBlob.
MaxUnits == 2

Payload(bytes) == [valid |-> TRUE, bytes |-> bytes]
Refused == [valid |-> FALSE, bytes |-> <<>>]

\* A unit document that names no prefab.
Document(components) ==
    [has_prefab |-> FALSE, has_modified_components |-> FALSE,
     modified_components |-> <<>>, components |-> components]

\* The compilers of unit_compiler.h push one descriptor struct each (4 bytes
\* here); the compiler of collider is physics_resource_internal's, and its
\* Buffer is 1 byte here.
Transform4 == [id |-> 1, type |-> "transform", data |-> Payload(<<1, 2, 3, 4>>)]
Collider1 == [id |-> 1, type |-> "collider", data |-> Payload(<<17>>)]
Camera4 == [id |-> 2, type |-> "camera", data |-> Payload(<<5, 6, 7, 8>>)]
CameraRefused == [id |-> 2, type |-> "camera", data |-> Refused]
Unregistered == [id |-> 3, type |-> "particles", data |-> Payload(<<9>>)]

BlobUnits ==
    { <<>>,
      <<Transform4>>,
      <<Collider1>>,
      <<Transform4, Camera4>>,
      <<Camera4, Collider1, Camera4>>,
      <<Transform4, Unregistered, Camera4>>,
      <<Unregistered>>,
      <<Transform4, CameraRefused>> }

CompileUnit ==
    \E components \in BlobUnits :
        /\ Len(units) + aborts < MaxUnits
        /\ compile_unit_from_json(<<Document(components)>>)
        /\ UNCHANGED umVars

Blob ==
    /\ blob
    /\ UNCHANGED umVars

NextBlob ==
    \/ CompileUnit
    \/ Blob

SpecBlob == Init /\ [][NextBlob]_vars

RootComponent(g) ==
    [id |-> g, type |-> IF g = 1 THEN "transform" ELSE "camera", data |-> Payload(<<g>>)]

Roots ==
    { <<RootComponent(1), RootComponent(2)>>,
      <<RootComponent(2), RootComponent(1)>>,
      <<RootComponent(1), RootComponent(1)>> }

\* Identifiers are 1, 2 and 3; no component of a root carries 3.
\* The component level `level` of a chain (1: the leaf) puts in the place of
\* the component with identifier g; with `renamed`, it carries another
\* identifier than the component it replaces.
Override(level, g, renamed) ==
    [id |-> IF renamed THEN (g % 3) + 1 ELSE g, type |-> "light",
     data |-> Payload(<<10 * level + g>>)]

\* The modified_components object with one entry "#<g>" for each g of `ids`,
\* in the order of its keys.
RECURSIVE ModifiedComponents(_, _, _)
ModifiedComponents(level, ids, renamed) ==
    IF ids = {} THEN <<>>
    ELSE LET g == CHOOSE x \in ids : \A y \in ids : x <= y
         IN  << [key |-> <<"#", g>>, value |-> Override(level, g, renamed)] >>
                 \o ModifiedComponents(level, ids \ {g}, renamed)

\* What a level may have for modified_components: no such field, or an
\* object with an entry for each identifier of a set.
LevelChoices ==
    {[has |-> TRUE, ids |-> ids] : ids \in {{1}, {2}, {1, 2}, {2, 3}}}
        \cup {[has |-> FALSE, ids |-> {}]}

\* A chain of documents: the last is the root, every other names the next as
\* its prefab and has components of its own.
PrefabChain(depth, pick, root, renamed) ==
    [level \in 1..depth |->
        [has_prefab |-> level < depth,
         has_modified_components |-> pick[level].has,
         modified_components |-> ModifiedComponents(level, pick[level].ids, renamed),
         components |-> IF level = depth THEN root ELSE <<RootComponent(3)>>]]

\* One unit compiled from a chain of 1 to MaxPrefabs documents.
CompilePrefabUnit ==
    \E depth \in 1..MaxPrefabs, root \in Roots, renamed \in BOOLEAN :
        \E pick \in [1..depth -> LevelChoices] :
            /\ ucLast.op = "none"
            /\ compile_unit_from_json(PrefabChain(depth, pick, root, renamed))
            /\ UNCHANGED umVars

NextPrefab == CompilePrefabUnit

SpecPrefab == Init /\ [][NextPrefab]_vars

\* What a level of a long chain may have for modified_components.
DeepChoices == {[has |-> TRUE, ids |-> {1}], [has |-> FALSE, ids |-> {}]}

\* A chain of `depth` documents as PrefabChain makes it; with `further`, its
\* last document has a prefab field too.
DeepChain(depth, pick, root, renamed, further) ==
    [level \in 1..depth |->
        [PrefabChain(depth, pick, root, renamed)[level] EXCEPT
            !.has_prefab = level < depth \/ further]]

\* One unit compiled from a chain that fills the MaxPrefabs slots, or is one
\* document longer; the prefab field of its last document, if it has one,
\* names a file that does not exist (MaxPrefabs documents) or is never looked
\* at (MaxPrefabs + 1 documents).
CompileDeepUnit ==
    \E depth \in {MaxPrefabs, MaxPrefabs + 1}, root \in Roots,
       renamed \in BOOLEAN, further \in BOOLEAN :
        \E pick \in [1..depth -> DeepChoices] :
            /\ ucLast.op = "none"
            /\ compile_unit_from_json(DeepChain(depth, pick, root, renamed, further))
            /\ UNCHANGED umVars

NextDeep == CompileDeepUnit

SpecDeep == Init /\ [][NextDeep]_vars

(* Units compiled one by one and in batches on one compiler.               *)
MaxBatch == 2

\* A unit whose prefab field names a file that does not exist.
MissingPrefab ==
    <<[has_prefab |-> TRUE, has_modified_components |-> FALSE,
       modified_components |-> <<>>, components |-> <<>>]>>

BatchChains ==
    { <<Document(<<Transform4>>)>>,
      <<Document(<<Transform4, Camera4>>)>>,
      <<Document(<<Transform4, CameraRefused>>)>>,
      MissingPrefab }

Batches == UNION {[1..n -> BatchChains] : n \in 0..MaxBatch}

CompileOneUnit ==
    \E prefabs \in BatchChains :
        /\ Len(units) + aborts < MaxUnits
        /\ compile_unit_from_json(prefabs)
        /\ UNCHANGED umVars

CompileMultipleUnits ==
    \E documents \in Batches :
        /\ Len(units) + aborts < MaxUnits
        /\ compile_multiple_units(documents)
        /\ UNCHANGED umVars

NextBatch ==
    \/ CompileOneUnit
    \/ CompileMultipleUnits
    \/ Blob

SpecBatch == Init /\ [][NextBatch]_vars

----------------------------------------------------------------------------
(* The registry under any sequence of register_component_compiler calls.   *)

\* register_component_compiler calls made on one compiler under SpecRegistry.
MaxRegistrations == 3

\* UnitCompiler::UnitCompiler, the member initialisers: no unit, an empty
\* _component_data and an empty _component_info.
UCEmpty ==
    /\ _num_units = 0
    /\ _component_data = << >>
    /\ _component_info = << >>
    /\ ucLast = NoCompile
    /\ units = <<>>
    /\ aborts = 0
    /\ out = <<>>
    /\ ucCalls = <<>>

\* The calls a registration is drawn from: two types of equal spawn order,
\* and one type under two spawn orders.
RegistryCalls ==
    { [op |-> "register", type |-> "transform", fn |-> "compile_transform", spawn_order |-> 0],
      [op |-> "register", type |-> "transform", fn |-> "compile_transform", spawn_order |-> 2],
      [op |-> "register", type |-> "camera",    fn |-> "compile_camera",    spawn_order |-> 1],
      [op |-> "register", type |-> "light",     fn |-> "compile_light",     spawn_order |-> 1] }

CallsOf(calls, op) == SelectSeq(calls, LAMBDA c : c.op = op)

\* One register_component_compiler(type, fn, spawn_order) call.
RegisterCompiler ==
    \E call \in RegistryCalls :
        /\ Len(CallsOf(ucCalls, "register")) < MaxRegistrations
        /\ LET r == register_component_compiler(_component_data, _component_info,
                        StringId32(call.type), call.fn, call.spawn_order)
           IN  /\ _component_data' = r.data
               /\ _component_info' = r.info
        /\ ucLast' = [op |-> "register"]
        /\ ucCalls' = Append(ucCalls, call)
        /\ out' = <<>>
        /\ UNCHANGED <<_num_units, units, aborts>>
        /\ UNCHANGED umVars

Light4 == [id |-> 3, type |-> "light", data |-> Payload(<<7, 8, 9, 10>>)]

RegistryUnits ==
    { <<Transform4, Camera4>>,
      <<Light4, Camera4>> }

CompileRegistryUnit ==
    \E components \in RegistryUnits :
        /\ Len(CallsOf(ucCalls, "compile")) < MaxUnits
        /\ compile_unit_from_json(<<Document(components)>>)
        /\ UNCHANGED umVars

InitRegistry == UMInit /\ UCEmpty

NextRegistry ==
    \/ RegisterCompiler
    \/ CompileRegistryUnit
    \/ Blob

SpecRegistry == InitRegistry /\ [][NextRegistry]_vars

----------------------------------------------------------------------------
(* Properties of the UnitManager.                                          *)

\* C1: an id returned by create is alive right after that create, and is not
\* alive right after the destroy that matches it (the destroy of that id while
\* the client holds it).
C1_AliveAfterCreateDeadAfterDestroy ==
    /\ last.op = "create" => alive(last.id)
    /\ (last.op = "destroy" /\ last.matching) => ~alive(last.id)

\* C1 witness: a recycled id has been created and then destroyed.
C1_Witness ==
    /\ last.op = "destroy"
    /\ last.matching
    /\ UnitGen(last.id) >= 1
    /\ ~alive(last.id)

\* C2 as claimed: once an id has been destroyed it is never alive again.
C2_DestroyedStaysDead == track.on => ~alive(track.id)

\* C2 as amended: a destroyed id (idx, g) is not alive until slot idx has been
\* destroyed 2^8 times, counting its own destroy: it is alive exactly when the
\* number of those destroys is a multiple of 2^8.
C2_DeadUntilWrap == track.on => (alive(track.id) <=> track.n = 0)

\* C2 witness: 2^8 - 1 destroys after its own, the id is still not alive.
C2_Witness ==
    /\ track.on
    /\ track.n = GenerationMod - 1
    /\ ~alive(track.id)

\* C3 as claimed: after destroy of (idx, g), every id created later with the
\* same idx has generation (g + 1) mod 2^8.
C3_RecycledGenerationIsNext ==
    (track.on /\ last.op = "create" /\ last.idx = UnitIndex(track.id))
        => UnitGen(last.id) = (UnitGen(track.id) + 1) % GenerationMod

\* C3 as amended: after destroy of a live id (idx, g), an id created with the
\* same idx has generation (g + n) mod 2^8, n the number of destroys of slot
\* idx since (that destroy counted); the next one created, with no destroy of
\* idx in between, has (g + 1) mod 2^8.
C3_RecycledGenerationCountsDestroys ==
    (track.on /\ last.op = "create" /\ last.idx = UnitIndex(track.id))
        => /\ UnitGen(last.id) = (UnitGen(track.id) + track.n) % GenerationMod
           /\ track.n = 1 => UnitGen(last.id) = (UnitGen(track.id) + 1) % GenerationMod

\* C3 witness: the slot of a destroyed id of generation 2^8 - 1 is recycled
\* with generation 0.
C3_Witness ==
    /\ track.on
    /\ UnitGen(track.id) = GenerationMod - 1
    /\ track.n = 1
    /\ last.op = "create"
    /\ last.recycled
    /\ last.idx = UnitIndex(track.id)
    /\ UnitGen(last.id) = 0

\* C4: a create made while the free-index queue holds at most
\* MINIMUM_FREE_INDICES entries appends a slot of generation 0 to the table,
\* returns the index of that slot and leaves the queue as it was.
C4_NoRecycleAtOrBelowLowWaterMark ==
    [][(last'.op = "create" /\ Len(_free_indices) <= MINIMUM_FREE_INDICES)
          => /\ _generation' = Append(_generation, 0)
             /\ ~last'.recycled
             /\ last'.idx = Len(_generation)
             /\ UnitIndex(last'.id) = Len(_generation)
             /\ _free_indices' = _free_indices]_vars

\* C4 witness: create has appended a slot while the queue held exactly
\* MINIMUM_FREE_INDICES entries.
C4_Witness ==
    /\ last.op = "create"
    /\ ~last.recycled
    /\ Len(_free_indices) = MINIMUM_FREE_INDICES
    /\ last.idx = Len(_generation) - 1

\* The subscriptions of `list` with the id they are invoked with.
InvocationsOf(list, id) ==
    [i \in 1..Len(list) |->
        [destroy |-> list[i].destroy, user_data |-> list[i].user_data, id |-> id]]

----------------------------------------------------------------------------
(* Properties of the UnitCompiler.                                         *)

\* The components of type hash `type` in a list.
OfType(components, type) ==
    SelectSeq(components, LAMBDA c : StringId32(c.type) = type)

\* The type hashes that occur in the units `us`.
TypesIn(us) ==
    {StringId32(us[k][i].type) : <<k, i>> \in
        UNION {{<<k, i>> : i \in 1..Len(us[k])} : k \in 1..Len(us)}}

\* The sequence numbers (from 0) of the units from unit k on that the
\* components of a type belong to, one per component, in compile order.
RECURSIVE OwnersFrom(_, _, _)
OwnersFrom(us, type, k) ==
    IF k > Len(us) THEN <<>>
    ELSE [i \in 1..Len(OfType(us[k], type)) |-> k - 1] \o OwnersFrom(us, type, k + 1)

\* The bytes the compilers made of the components of a list.
RECURSIVE PayloadsOf(_)
PayloadsOf(components) ==
    IF components = <<>> THEN <<>>
    ELSE Head(components).data.bytes \o PayloadsOf(Tail(components))

\* The bytes the compilers made of the components of a type, from unit k on.
RECURSIVE PayloadFrom(_, _, _)
PayloadFrom(us, type, k) ==
    IF k > Len(us) THEN <<>>
    ELSE PayloadsOf(OfType(us[k], type)) \o PayloadFrom(us, type, k + 1)

\* C6: after units u0..u(n-1) have been compiled, none ended by a compile
\* error, blob() holds exactly one section per component type that occurs in a
\* unit, with num_instances the number of components of that type over all
\* units and with the sequence numbers of their units as owner indices, in
\* compile order.
C6_SectionPerTypeWithOwners ==
    (ucLast.op = "blob" /\ aborts = 0) =>
        LET b == ReadBlob(out) IN
        /\ Len(b.sections) = Cardinality(TypesIn(units))
        /\ {b.sections[i].type : i \in 1..Len(b.sections)} = TypesIn(units)
        /\ \A i \in 1..Len(b.sections) :
              /\ b.sections[i].num_instances
                    = Len(OwnersFrom(units, b.sections[i].type, 1))
              /\ b.sections[i].owners = OwnersFrom(units, b.sections[i].type, 1)

\* C6 witness: the blob of the units [transform, camera] and [transform] has
\* two sections: transform with 2 instances owned by units 0 and 1, camera
\* with 1 instance owned by unit 0.
C6_Witness ==
    /\ ucLast.op = "blob"
    /\ aborts = 0
    /\ units = << <<Transform4, Camera4>>, <<Transform4>> >>
    /\ LET b == ReadBlob(out) IN
       /\ Len(b.sections) = 2
       /\ \E i, j \in 1..2 :
             /\ b.sections[i].type = StringId32("transform")
             /\ b.sections[i].num_instances = 2
             /\ b.sections[i].owners = <<0, 1>>
             /\ b.sections[j].type = StringId32("camera")
             /\ b.sections[j].num_instances = 1
             /\ b.sections[j].owners = <<0>>

\* C7: read by the documented layout, every section of blob() has the
\* instance count and the owner indices of its type and, as payload, exactly
\* the bytes the compilers made of the components of that type, in compile
\* order.
C7_RoundTrip ==
    (ucLast.op = "blob" /\ aborts = 0) =>
        LET b == ReadBlob(out) IN
        \A i \in 1..Len(b.sections) :
            /\ b.sections[i].num_instances = Len(OwnersFrom(units, b.sections[i].type, 1))
            /\ b.sections[i].owners = OwnersFrom(units, b.sections[i].type, 1)
            /\ b.sections[i].payload = PayloadFrom(units, b.sections[i].type, 1)

\* The levels of a chain whose modified_components has an entry for "#<g>",
\* and the component such a level gives for it.
Overriders(prefabs, g) ==
    {level \in 1..Len(prefabs) :
        /\ prefabs[level].has_modified_components
        /\ \E n \in 1..Len(prefabs[level].modified_components) :
              prefabs[level].modified_components[n].key = <<"#", g>>}

OverrideBy(prefabs, level, g) ==
    LET m == prefabs[level].modified_components
    IN  m[CHOOSE n \in 1..Len(m) : m[n].key = <<"#", g>>].value

\* Component k of the list is the one its identifier names: none before it
\* carries the same identifier.
Identified(components, k) ==
    \A j \in 1..(k - 1) : components[j].id # components[k].id

\* C8: for a unit that inherits from a root with components C0..Cn-1, the
\* resolved list has n components; where one level maps the identifier of Ck
\* to an override, position k holds that override, and every position that no
\* override names holds the root's component.
C8_OverrideKeepsPosition ==
    (ucLast.op = "compile" /\ Len(ucLast.prefabs) > 1) =>
        LET root == ucLast.prefabs[Len(ucLast.prefabs)].components
            resolved == ucLast.components
        IN  /\ Len(resolved) = Len(root)
            /\ \A k \in 1..Len(root) :
                  LET by == Overriders(ucLast.prefabs, root[k].id) IN
                  /\ (Identified(root, k) /\ Cardinality(by) = 1)
                        => resolved[k]
                             = OverrideBy(ucLast.prefabs, CHOOSE l \in by : TRUE, root[k].id)
                  /\ (by = {} \/ ~Identified(root, k)) => resolved[k] = root[k]

\* C8 witness: root [A(id=1), B(id=2)], the leaf overrides id 2 with B': the
\* resolved list is [A, B'].
C8_Witness ==
    /\ ucLast.op = "compile"
    /\ Len(ucLast.prefabs) = 2
    /\ ucLast.prefabs[2].components = <<RootComponent(1), RootComponent(2)>>
    /\ Overriders(ucLast.prefabs, 2) = {1}
    /\ Overriders(ucLast.prefabs, 1) = {}
    /\ ucLast.components = <<RootComponent(1), Override(1, 2, FALSE)>>

\* C9: where several levels of a chain override the same component of the
\* root, the resolved list holds the override of the level closest to the
\* leaf, for every chain of up to MaxPrefabs documents.
C9_MostSpecificOverrideWins ==
    (ucLast.op = "compile" /\ Len(ucLast.prefabs) > 1) =>
        LET root == ucLast.prefabs[Len(ucLast.prefabs)].components
            resolved == ucLast.components
        IN  \A k \in 1..Len(root) :
                LET by == Overriders(ucLast.prefabs, root[k].id) IN
                (Identified(root, k) /\ Cardinality(by) >= 2)
                    => resolved[k]
                         = OverrideBy(ucLast.prefabs,
                                      CHOOSE l \in by : \A m \in by : l <= m, root[k].id)

\* C9 witness: in a chain of MaxPrefabs documents the grandparent and the
\* parent override the same component, and the unit holds the parent's.
C9_Witness ==
    /\ ucLast.op = "compile"
    /\ Len(ucLast.prefabs) = MaxPrefabs
    /\ \E k \in 1..Len(ucLast.components) :
          LET root == ucLast.prefabs[MaxPrefabs].components IN
          /\ Identified(root, k)
          /\ Overriders(ucLast.prefabs, root[k].id) = {2, 3}
          /\ ucLast.components[k] = OverrideBy(ucLast.prefabs, 2, root[k].id)
          /\ ucLast.components[k] # OverrideBy(ucLast.prefabs, 3, root[k].id)

\* The type names the constructor registers.
RegisteredTypes == {Registrations[n].type : n \in 1..Len(Registrations)}

\* The instances recorded over all types.
RECURSIVE SumNum(_, _)
SumNum(cdata, types) ==
    IF types = {} THEN 0
    ELSE LET t == CHOOSE x \in types : TRUE IN cdata[t]._num + SumNum(cdata, types \ {t})

\* C10: when component k of a unit is the first the compiler cannot take and
\* its type name is not registered, compile_unit ends with the error "Unknown
\* component" at k: no compiler is invoked for component k nor for a later
\* one, _num_units is not advanced, and nothing (count, owner index, payload)
\* is recorded for that type.
C10_UnknownTypeAborts ==
    [][(/\ ucLast'.op = "compile"
        /\ \E k \in 1..Len(ucLast'.components) :
              /\ ucLast'.components[k].type \notin RegisteredTypes
              /\ \A j \in 1..(k - 1) :
                    /\ ucLast'.components[j].type \in RegisteredTypes
                    /\ ucLast'.components[j].data.valid)
          => LET cs == ucLast'.components
                 k == CHOOSE n \in 1..Len(cs) :
                        /\ cs[n].type \notin RegisteredTypes
                        /\ \A j \in 1..(n - 1) : cs[j].type \in RegisteredTypes
                 type == StringId32(cs[k].type)
             IN  /\ ucLast'.error = "Unknown component"
                 /\ ucLast'.failedAt = k
                 /\ ucLast'.encoded = k - 1
                 /\ _num_units' = _num_units
                 /\ aborts' = aborts + 1
                 /\ DOMAIN _component_data' = DOMAIN _component_data
                 /\ type \notin DOMAIN _component_data'
                 /\ SumNum(_component_data', DOMAIN _component_data')
                        = SumNum(_component_data, DOMAIN _component_data) + (k - 1)
                 /\ \A i \in 1..Len(ReadBlob(blob_bytes(_num_units', _component_data',
                                                       _component_info')).sections) :
                       ReadBlob(blob_bytes(_num_units', _component_data',
                                           _component_info')).sections[i].type # type]_vars

\* C10 witness: a unit was ended by "Unknown component" at its second
\* component, after the compiler of its first was invoked.
C10_Witness ==
    /\ ucLast.op = "compile"
    /\ ucLast.error = "Unknown component"
    /\ ucLast.failedAt = 2
    /\ ucLast.encoded = 1
    /\ ucLast.components[2].type \notin RegisteredTypes

\* C11: when compile_unit ends with a compile error at a component of the
\* unit (an unknown type, or a compiler that refuses its payload), nothing of
\* that unit is kept: the instance counts, owner indices and payloads of all
\* component types and _num_units are what they were before the call.
C11_AbortedUnitLeavesNoData ==
    [][(ucLast'.op = "compile" /\ ucLast'.error # "none")
          => /\ _component_data' = _component_data
             /\ _num_units' = _num_units]_vars

\* array::size(buf) at array::push(buf, (char*)&cd, sizeof(cd)): the offsets
\* in the blob at which the section headers from entry i of _component_info
\* on are written, with their types, when the buffer holds `offset` bytes.
RECURSIVE SectionStartsFrom(_, _, _, _)
SectionStartsFrom(cdata, info, i, offset) ==
    IF i > Len(info) THEN <<>>
    ELSE LET ctd == SortMapGet(cdata, info[i]._type, ComponentTypeData)
             bytes == SectionBytes(info[i]._type, ctd)
         IN  (IF ctd._num > 0
              THEN << [offset |-> offset, type |-> info[i]._type,
                       spawn_order |-> info[i]._spawn_order, ctd |-> ctd] >>
              ELSE <<>>)
                \o SectionStartsFrom(cdata, info, i + 1, offset + Len(bytes))

\* The section headers of the blob of the present state.
SectionStarts == SectionStartsFrom(_component_data, _component_info, 1, SizeofUnitResource)

\* C12: in the blob every section header starts at an offset that is a
\* multiple of the alignment of the header (4 bytes), whatever the instance
\* counts and payload sizes.
C12_SectionHeadersAligned ==
    ucLast.op = "blob" =>
        \A i \in 1..Len(SectionStarts) :
            SectionStarts[i].offset % AlignofComponentData = 0

\* C13: the section_size field of every section header of the blob is the
\* size of the owner indices (4 * num_instances) plus the size of the payload
\* the compilers produced for the type.
C13_SectionSizeIsOwnersPlusPayload ==
    ucLast.op = "blob" =>
        \A i \in 1..Len(SectionStarts) :
            LET h == SectionStarts[i] IN
            /\ U32At(out, h.offset) = h.type
            /\ U32At(out, h.offset + 2 * SizeofU32)
                   = SizeofU32 * h.ctd._num + Len(h.ctd._data)

Registered == CallsOf(ucCalls, "register")

\* C15: the sections of the blob are in registry priority order: each is
\* written for a registered (type, spawn priority), the spawn priority of a
\* section is at most that of the next, and of two sections of equal spawn
\* priority the one with the smaller type hash comes first.
C15_SectionsInPriorityOrder ==
    ucLast.op = "blob" =>
        /\ \A i \in 1..Len(SectionStarts) :
              /\ U32At(out, SectionStarts[i].offset) = SectionStarts[i].type
              /\ \E n \in 1..Len(Registered) :
                    /\ StringId32(Registered[n].type) = SectionStarts[i].type
                    /\ Registered[n].spawn_order = SectionStarts[i].spawn_order
        /\ \A i \in 1..(Len(SectionStarts) - 1) :
              \/ SectionStarts[i].spawn_order < SectionStarts[i + 1].spawn_order
              \/ /\ SectionStarts[i].spawn_order = SectionStarts[i + 1].spawn_order
                 /\ SectionStarts[i].type <= SectionStarts[i + 1].type

\* C15 witness: light was registered before camera with the same spawn
\* priority and compiled first, transform was registered last with a lower
\* one, and the blob has the sections transform, camera, light.
C15_Witness ==
    /\ ucLast.op = "blob"
    /\ Len(Registered) = 3
    /\ Registered[1].type = "light"
    /\ Registered[2].type = "camera"
    /\ Registered[3].type = "transform" /\ Registered[3].spawn_order = 0
    /\ Len(SectionStarts) = 3
    /\ SectionStarts[1].type = StringId32("transform")
    /\ SectionStarts[2].type = StringId32("camera")
    /\ SectionStarts[3].type = StringId32("light")

\* The compiler after the calls `calls` were made on it in the state st, one
\* after the other: register_component_compiler(type, fn, spawn_order) and
\* compile_unit_from_json(json).
RECURSIVE ApplyCalls(_, _)
ApplyCalls(st, calls) ==
    IF calls = <<>> THEN st
    ELSE LET call == Head(calls)
             next ==
                IF call.op = "register"
                THEN LET r == register_component_compiler(st.data, st.info,
                                  StringId32(call.type), call.fn, call.spawn_order)
                     IN  [data |-> r.data, info |-> r.info, num_units |-> st.num_units]
                ELSE LET r == CompileComponents(st.data, ResolveUnit(call.prefabs), 1,
                                                st.num_units)
                     IN  [data |-> r.cdata, info |-> st.info,
                          num_units |-> IF r.error = "none" THEN st.num_units + 1
                                        ELSE st.num_units]
         IN  ApplyCalls(next, Tail(calls))

\* blob() of a compiler on which `calls` were made since its member
\* initialisers ran.
BlobAfter(calls) ==
    LET st == ApplyCalls([data |-> << >>, info |-> << >>, num_units |-> 0], calls)
    IN  blob_bytes(st.num_units, st.data, st.info)

Orders(n) ==
    {f \in [1..n -> 1..n] : \A i, j \in 1..n : f[i] = f[j] => i = j}

\* All registrations were made before the first compile_unit.
RegisteredFirst == ucCalls = Registered \o CallsOf(ucCalls, "compile")

\* C16: the order of the registration calls does not affect the output: after
\* registrations followed by compile_unit calls, blob() returns the bytes it
\* returns when the same registrations are made in any other order before the
\* same compile_unit calls.
C16_RegistrationOrderDoesNotMatter ==
    (ucLast.op = "blob" /\ RegisteredFirst) =>
        \A f \in Orders(Len(Registered)) :
            BlobAfter([i \in 1..Len(Registered) |-> Registered[f[i]]]
                          \o CallsOf(ucCalls, "compile")) = out

\* C16 witness: camera, light and transform were registered in an order that
\* is not their priority order, two units were compiled, and the blob has a
\* section for each of the three types, as it has for the registrations made
\* in the reverse order.
C16_Witness ==
    /\ ucLast.op = "blob"
    /\ RegisteredFirst
    /\ Len(Registered) = 3
    /\ {Registered[n].type : n \in 1..3} = {"camera", "light", "transform"}
    /\ Registered[1].type = "light"
    /\ Registered[3].type = "camera"
    /\ Len(CallsOf(ucCalls, "compile")) = 2
    /\ U32At(out, 2 * SizeofU32) = 3
    /\ BlobAfter(<<Registered[3], Registered[2], Registered[1]>>
                    \o CallsOf(ucCalls, "compile")) = out

C18_DeepChainIsAnError ==
    (/\ ucLast.op = "compile"
     /\ Len(ucLast.prefabs) >= MaxPrefabs
     /\ ucLast.prefabs[MaxPrefabs].has_prefab)
        => /\ ucLast.error # "none"
           /\ ucLast.num_prefabs <= MaxPrefabs

\* The entries of a level's modified_components whose identifier is that of
\* no component of the list `root`.
Unmatched(root, modified) ==
    {n \in 1..Len(modified) :
        \A k \in 1..Len(root) : root[k].id # modified[n].key[2]}

\* The chain without the entries that match no component of its root.
WithoutUnmatched(prefabs) ==
    LET root == prefabs[Len(prefabs)].components
    IN  [level \in 1..Len(prefabs) |->
            [prefabs[level] EXCEPT !.modified_components =
                SelectSeq(@, LAMBDA e : \E k \in 1..Len(root) : root[k].id = e.key[2])]]

\* C19: an entry of modified_components whose identifier matches no component
\* of the root's list is dropped without notice: the resolved list is the one
\* the chain gives without that entry, it has as many components as the
\* root's, none of them the entry's, and no error is reported.
C19_UnmatchedOverrideIsDropped ==
    (/\ ucLast.op = "compile"
     /\ Len(ucLast.prefabs) > 1
     /\ \E level \in 1..Len(ucLast.prefabs) :
           /\ ucLast.prefabs[level].has_modified_components
           /\ Unmatched(ucLast.prefabs[Len(ucLast.prefabs)].components,
                        ucLast.prefabs[level].modified_components) # {})
        => LET root == ucLast.prefabs[Len(ucLast.prefabs)].components IN
           /\ ucLast.components = ResolveUnit(WithoutUnmatched(ucLast.prefabs))
           /\ Len(ucLast.components) = Len(root)
           /\ \A level \in 1..Len(ucLast.prefabs) :
                 \A n \in Unmatched(root, ucLast.prefabs[level].modified_components) :
                    \A k \in 1..Len(ucLast.components) :
                       ucLast.components[k]
                          # ucLast.prefabs[level].modified_components[n].value
           /\ ucLast.error = "none"
           /\ aborts = 0
           /\ _num_units = 1

\* C19 witness: the leaf has overrides for the identifiers 2 and 3, the root
\* has the components 1 and 2: the resolved list is the root's first
\* component and the override for 2.
C19_Witness ==
    /\ ucLast.op = "compile"
    /\ Len(ucLast.prefabs) = 2
    /\ ucLast.prefabs[2].components = <<RootComponent(1), RootComponent(2)>>
    /\ Overriders(ucLast.prefabs, 3) = {1}
    /\ Overriders(ucLast.prefabs, 2) = {1}
    /\ ucLast.components = <<RootComponent(1), Override(1, 2, FALSE)>>
    /\ ucLast.error = "none"

\* C20: while the free queue holds more than MINIMUM_FREE_INDICES indices,
\* create takes the index at the front of the queue and returns it with the
\* present generation of its slot; otherwise create appends a slot of
\* generation 0 and returns the former length of the table as index. destroy
\* puts the index at the back of the queue, so indices are reused in the order
\* of their destruction.
C20_RecyclesFrontOfQueue ==
    [][/\ last'.op = "create" =>
            IF Len(_free_indices) > MINIMUM_FREE_INDICES
            THEN /\ last'.idx = Head(_free_indices)
                 /\ _free_indices' = Tail(_free_indices)
                 /\ _generation' = _generation
                 /\ UnitIndex(last'.id) = last'.idx
                 /\ UnitGen(last'.id) = _generation[last'.idx + 1]
            ELSE /\ last'.idx = Len(_generation)
                 /\ _generation' = Append(_generation, 0)
                 /\ _free_indices' = _free_indices
                 /\ UnitIndex(last'.id) = last'.idx
                 /\ UnitGen(last'.id) = 0
       /\ last'.op = "destroy" =>
            _free_indices' = Append(_free_indices, last'.idx)]_vars

\* C20 witness: create has reused the index destroyed first while an index
\* destroyed later is still queued, with a generation that is not 0.
C20_Witness ==
    /\ last.op = "create"
    /\ last.recycled
    /\ Len(_free_indices) >= 1
    /\ \A n \in 1..Len(_free_indices) : _free_indices[n] # last.idx
    /\ UnitGen(last.id) = _generation[last.idx + 1]
    /\ UnitGen(last.id) > 0

----------------------------------------------------------------------------
\* C21: destroy(id) advances the generation of id's slot and queues the index
\* before it invokes any subscription: every subscription invoked for id reads
\* the table and the queue as destroy leaves them, with the index at the back
\* of the queue and, for an id that was alive at the call, alive(id) false.
C21_CallbacksSeeDestroyedId ==
    last.op = "destroy" =>
        /\ \A j \in 1..Len(invoked) : invoked[j].id = last.id
        /\ last.seen = [_generation |-> _generation, _free_indices |-> _free_indices]
        /\ Len(last.seen._free_indices) > 0
        /\ last.seen._free_indices[Len(last.seen._free_indices)] = last.idx
        /\ last.matching => last.seen._generation[last.idx + 1] # UnitGen(last.id)

\* A destroy of a live id with two subscriptions invoked.
C21_Witness ==
    /\ last.op = "destroy"
    /\ last.matching
    /\ Len(invoked) >= 2
    /\ last.seen._generation[last.idx + 1] = NextGeneration(UnitGen(last.id))
    /\ last.idx \in {last.seen._free_indices[n] : n \in 1..Len(last.seen._free_indices)}

----------------------------------------------------------------------------
\* C22: unregister_destroy_function(context) with a context no registered
\* subscription carries ends in the fatal error "Unknown destroy function" and
\* leaves the subscription list as it was, entry by entry.
C22_UnknownContextIsFatal ==
    [][(/\ last'.op \in {"unregister", "unregister_failed"}
        /\ \A i \in 1..Len(_destroy_callbacks) :
              _destroy_callbacks[i].user_data # last'.user_data)
       => /\ fatal' = "Unknown destroy function"
          /\ last'.op = "unregister_failed"
          /\ _destroy_callbacks' = _destroy_callbacks
          /\ UNCHANGED <<_generation, _free_indices>>]_vars

\* An unknown context was unregistered while two subscriptions were registered.
C22_Witness ==
    /\ last.op = "unregister_failed"
    /\ fatal = "Unknown destroy function"
    /\ Len(_destroy_callbacks) >= 2
    /\ \A i \in 1..Len(_destroy_callbacks) :
          _destroy_callbacks[i].user_data # last.user_data

----------------------------------------------------------------------------
\* The subscriptions of a list, as a set.
Subscriptions(list) == {list[i] : i \in 1..Len(list)}

\* C23: register_destroy_function appends one subscription at the end of the
\* list; unregister_destroy_function(context) with a registered context moves
\* the last subscription into the slot of the one with that context and shrinks
\* the list by one, so the remaining subscriptions are the previous ones less
\* that one; neither changes the generation table or the free queue.
C23_AppendAndSwapRemove ==
    [][/\ last'.op = "register" =>
            /\ Len(_destroy_callbacks') = Len(_destroy_callbacks) + 1
            /\ SubSeq(_destroy_callbacks', 1, Len(_destroy_callbacks)) = _destroy_callbacks
            /\ _destroy_callbacks'[Len(_destroy_callbacks')].user_data = last'.user_data
            /\ UNCHANGED <<_generation, _free_indices>>
       /\ last'.op = "unregister" =>
            \E i \in 1..Len(_destroy_callbacks) :
                /\ _destroy_callbacks[i].user_data = last'.user_data
                /\ Len(_destroy_callbacks') = Len(_destroy_callbacks) - 1
                /\ \A j \in 1..Len(_destroy_callbacks') :
                      _destroy_callbacks'[j] =
                          IF j = i THEN _destroy_callbacks[Len(_destroy_callbacks)]
                          ELSE _destroy_callbacks[j]
                /\ Subscriptions(_destroy_callbacks') =
                      Subscriptions(_destroy_callbacks) \ {_destroy_callbacks[i]}
                /\ \A j \in 1..Len(_destroy_callbacks') :
                      _destroy_callbacks'[j].user_data # last'.user_data
                /\ UNCHANGED <<_generation, _free_indices>>]_vars

\* The first of three subscriptions was unregistered, with units created and
\* destroyed before: the former last subscription is now the first of two.
C23_Witness ==
    /\ last.op = "unregister"
    /\ swapped
    /\ Len(_destroy_callbacks) = 2
    /\ Len(regOrder) = 2
    /\ _destroy_callbacks[1] = regOrder[2]
    /\ Len(_generation) > 0
    /\ Len(_free_indices) > 0

----------------------------------------------------------------------------
\* C24: create ends in the fatal error "Indices out of bounds" when the table
\* has used up the index space and no index is recycled; an id it returns has
\* an index below 2^UNIT_INDEX_BITS, so the index and the generation read back
\* from the id are the ones packed into it.
C24_ExhaustedIndexSpaceIsFatal ==
    [][/\ last'.op = "create" =>
            /\ last'.idx < IndexLimit
            /\ UnitIndex(last'.id) = last'.idx
            /\ UnitGen(last'.id) = _generation'[last'.idx + 1]
            /\ fatal' = "none"
       /\ (/\ last'.op \in {"create", "create_failed"}
           /\ ~(Len(_free_indices) > MINIMUM_FREE_INDICES)
           /\ Len(_generation) >= 2 ^ UNIT_INDEX_BITS)
          => /\ last'.op = "create_failed"
             /\ fatal' = "Indices out of bounds"
             /\ held' = held]_vars

\* create has failed on a full table, and ids of its highest index have been
\* handed out with a generation above 0.
C24_Witness ==
    /\ last.op = "create_failed"
    /\ fatal = "Indices out of bounds"
    /\ Len(_generation) = 2 ^ UNIT_INDEX_BITS + 1
    /\ \E id \in held : UnitIndex(id) = 2 ^ UNIT_INDEX_BITS - 1
    /\ \E id \in held : UnitGen(id) > 0

----------------------------------------------------------------------------
\* compile_unit_from_json called on d0, then on d1, ... on the members st.
RECURSIVE OneByOne(_, _)
OneByOne(st, documents) ==
    IF documents = <<>> THEN st
    ELSE OneByOne(CompileUnitFromJson(st, Head(documents)), Tail(documents))

\* The members after a step, less the record of the owner indices passed.
MembersAfter(st) ==
    /\ _component_data' = st.data
    /\ _num_units' = st.num_units
    /\ units' = st.units
    /\ aborts' = st.aborts

\* The documents of a batch before the k-th that were compiled to their end.
CompiledBefore(passed, k) == {j \in 1..(k - 1) : passed[j].compiled}

\* C25 as stated: compile_multiple_units on [d0..dn-1] leaves the compiler as
\* compile_unit_from_json on d0, d1, ..., dn-1 does, and unit dk gets the owner
\* index base + k, base being the unit counter before the call.
C25_BatchIsSequenceOwnerIsBasePlusK ==
    [][ucLast'.op = "compile_multiple" =>
          LET r == OneByOne(Members, ucLast'.documents)
          IN  /\ MembersAfter(r)
              /\ ucLast'.passed = r.passed
              /\ \A k \in 1..Len(ucLast'.passed) :
                    ucLast'.passed[k].compiled =>
                        ucLast'.passed[k].unit_index = _num_units + (k - 1)]_vars

\* C25, amended: compile_multiple_units on [d0..dn-1] leaves the compiler as
\* compile_unit_from_json on d0, d1, ..., dn-1 does (a single call being one
\* step of that sequence), and a unit dk that compiles gets the owner index
\* base + the number of documents before it in the batch that compiled; the
\* unit counter ends at base + the number of documents that compiled.
C25_BatchIsSequence ==
    [][/\ ucLast'.op = "compile" /\ ucLast'.outcome = "defined" =>
            MembersAfter(CompileUnitFromJson(Members, ucLast'.prefabs))
       /\ ucLast'.op = "compile_multiple" =>
            LET r == OneByOne(Members, ucLast'.documents)
            IN  /\ MembersAfter(r)
                /\ ucLast'.passed = r.passed
                /\ Len(ucLast'.passed) = Len(ucLast'.documents)
                /\ \A k \in 1..Len(ucLast'.passed) :
                      ucLast'.passed[k].compiled =>
                          ucLast'.passed[k].unit_index =
                              _num_units + Cardinality(CompiledBefore(ucLast'.passed, k))
                /\ _num_units' = _num_units + Cardinality(
                      CompiledBefore(ucLast'.passed, Len(ucLast'.passed) + 1))]_vars

\* A batch of two on a compiler that has compiled a unit before: the first
\* document ended with an error, the second compiled and its transform is
\* owned by unit base, not base + 1.
C25_Witness ==
    /\ ucLast.op = "compile_multiple"
    /\ Len(ucLast.documents) = 2
    /\ ucLast.base >= 1
    /\ ~ucLast.passed[1].compiled
    /\ ucLast.passed[2].compiled
    /\ ucLast.passed[2].unit_index = ucLast.base
    /\ _num_units = ucLast.base + 1
    /\ LET ctd == SortMapGet(_component_data, StringId32("transform"), ComponentTypeData)
       IN  ctd._unit_index[Len(ctd._unit_index)] = ucLast.base

----------------------------------------------------------------------------
\* C26: alive(id) returns true exactly when the generation table's entry of
\* id's index equals id's generation, and it changes nothing: the table, the
\* free-index queue and the subscription list are as before and no
\* subscription is invoked.
C26_AliveComparesAndChangesNothing ==
    [][last'.op = "alive" =>
          /\ last'.result =
                (_generation[(last'.id % 2 ^ UNIT_INDEX_BITS) + 1]
                    = (last'.id \div 2 ^ UNIT_INDEX_BITS) % GenerationMod)
          /\ UNCHANGED <<_generation, _free_indices, _destroy_callbacks>>
          /\ invoked' = <<>>]_vars

\* alive has answered false for a destroyed id whose index is held by a newer
\* id, with a subscription registered.
C26_Witness ==
    /\ last.op = "alive"
    /\ ~last.result
    /\ last.id \in stale
    /\ \E id \in held : UnitIndex(id) = UnitIndex(last.id) /\ UnitGen(id) # UnitGen(last.id)
    /\ Len(_destroy_callbacks) >= 1
    /\ invoked = <<>>

----------------------------------------------------------------------------
\* The ids in `ids` whose index is idx, and the places of idx in the queue.
HoldersOf(ids, idx) == {id \in ids : UnitIndex(id) = idx}
PlacesOf(free, idx) == {n \in 1..Len(free) : free[n] = idx}

\* C27: while destroy is called only on ids that are alive, create never
\* returns an id that is alive at that moment, the ids handed out and not
\* destroyed are alive, and every index below the length of the generation
\* table is held by exactly one of them or is exactly once in the free-index
\* queue, never both and never twice.
C27_LiveIdsNeverAlias ==
    [][/\ last'.op = "create" =>
            /\ last'.id \notin held
            /\ HoldersOf(held, last'.idx) = {}
       /\ last'.op = "destroy" => last'.matching
       /\ fatal' = "none" =>
            /\ \A id \in held' : _generation'[UnitIndex(id) + 1] = UnitGen(id)
            /\ \A idx \in 0..(Len(_generation') - 1) :
                  Cardinality(HoldersOf(held', idx))
                      + Cardinality(PlacesOf(_free_indices', idx)) = 1]_vars

\* A slot whose counter has wrapped is held again under the id it handed out
\* first, while the other slot waits in the queue.
C27_Witness ==
    /\ last.op = "create"
    /\ last.recycled
    /\ track.on
    /\ track.id = last.id
    /\ track.n = 0
    /\ last.id \in held
    /\ Len(_free_indices) = MINIMUM_FREE_INDICES

----------------------------------------------------------------------------
\* C28: destroy(id) of an id that is not alive leaves every other id that is
\* alive as alive as it was, and does not queue an index that is in the queue
\* already or that a live id holds.
C28_StaleDestroyIsHarmless ==
    [][(/\ last'.op = "destroy"
        /\ _generation[last'.idx + 1] # UnitGen(last'.id))
       => /\ \A id \in held :
                (_generation[UnitIndex(id) + 1] = UnitGen(id))
                    => (_generation'[UnitIndex(id) + 1] = UnitGen(id))
          /\ PlacesOf(_free_indices, last'.idx) = {}
          /\ \A id \in HoldersOf(held, last'.idx) :
                _generation[UnitIndex(id) + 1] # UnitGen(id)]_vars

----------------------------------------------------------------------------
\* C29: the generation table is append-only. Its length never decreases;
\* create changes it only on the non-recycling path, by appending one entry of
\* value 0; destroy changes only the entry of id's index, by +1 modulo 2^8;
\* alive, register_destroy_function and unregister_destroy_function leave it
\* as it is.
C29_GenerationTableAppendOnly ==
    [][/\ Len(_generation') >= Len(_generation)
       /\ last'.op \in {"create", "create_failed"} =>
            IF Len(_free_indices) > MINIMUM_FREE_INDICES
            THEN _generation' = _generation
            ELSE _generation' = _generation \o <<0>>
       /\ last'.op = "destroy" =>
            /\ Len(_generation') = Len(_generation)
            /\ \A n \in 1..Len(_generation) :
                  _generation'[n] =
                      IF n = (last'.id % 2 ^ UNIT_INDEX_BITS) + 1
                      THEN (_generation[n] + 1) % 256
                      ELSE _generation[n]
            /\ \A n \in 1..Len(_generation) : _generation'[n] \in 0..255
       /\ last'.op \in {"alive", "register", "unregister", "unregister_failed"} =>
            _generation' = _generation]_vars

\* Every operation has been seen on a table one of whose counters has wrapped
\* from 2^8 - 1 to 0: here alive is asked after the wrap.
C29_Witness ==
    /\ last.op = "alive"
    /\ track.on
    /\ track.n = 0
    /\ _generation[UnitIndex(track.id) + 1] = UnitGen(track.id)
    /\ Len(_generation) = MINIMUM_FREE_INDICES + 1
    /\ Len(_destroy_callbacks) = 1

----------------------------------------------------------------------------
\* C30: once the free-index queue holds MINIMUM_FREE_INDICES entries its
\* length never drops below that again, whatever create and destroy calls
\* follow; the length changes only by +1 in destroy and by -1 in a create that
\* recycles.
C30_FreeQueueFloor ==
    [][/\ Len(_free_indices) >= MINIMUM_FREE_INDICES
            => Len(_free_indices') >= MINIMUM_FREE_INDICES
       /\ last'.op = "destroy" => Len(_free_indices') = Len(_free_indices) + 1
       /\ last'.op = "create" =>
            Len(_free_indices') =
                IF last'.recycled THEN Len(_free_indices) - 1 ELSE Len(_free_indices)
       /\ Len(_free_indices') # Len(_free_indices)
            => \/ last'.op = "destroy"
               \/ last'.op = "create" /\ last'.recycled]_vars

\* A recycling create has brought the queue back down to the floor, and the
\* queue still holds the index it handed out (an id was destroyed twice).
C30_Witness ==
    /\ last.op = "create"
    /\ last.recycled
    /\ Len(_free_indices) = MINIMUM_FREE_INDICES
    /\ \E id \in stale : UnitIndex(id) = last.idx
    /\ \E n \in 1..Len(_free_indices) : _free_indices[n] = last.idx

----------------------------------------------------------------------------
\* C31: when a callback unregisters its own subscription while destroy(id) is
\* notifying, every other subscription that was registered when destroy(id)
\* was called is still invoked exactly once for id.
C31_SelfUnregisterSkipsNobody ==
    (last.op = "destroy" /\ "leaving" \in DOMAIN last) =>
        \A k \in 1..Len(last.registered) :
            Cardinality({n \in 1..Len(invoked) :
                /\ invoked[n].user_data = last.registered[k].user_data
                /\ invoked[n].id = last.id}) = 1

----------------------------------------------------------------------------
\* The slot of the root's own list that the identifier g names (0: none).
TargetSlot(root, g) ==
    LET hits == {k \in 1..Len(root) : root[k].id = g}
    IN  IF hits = {} THEN 0 ELSE CHOOSE k \in hits : \A j \in hits : k <= j

\* The levels of a chain with an entry whose key names slot k of the root's
\* own list, and the value of that entry.
LevelsOnto(prefabs, root, k) ==
    {level \in 1..Len(prefabs) :
        /\ prefabs[level].has_modified_components
        /\ \E n \in 1..Len(prefabs[level].modified_components) :
              TargetSlot(root, prefabs[level].modified_components[n].key[2]) = k}

ValueOnto(prefabs, root, level, k) ==
    LET m == prefabs[level].modified_components
    IN  m[CHOOSE n \in 1..Len(m) : TargetSlot(root, m[n].key[2]) = k].value

\* C32: the slot an override is written to is the one its key names in the
\* untouched component list of the ultimate ancestor. What earlier levels have
\* written, also a replacement that carries another identifier, has no part
\* in it: every slot ends with the entry of the level closest to the leaf
\* among those whose key names that slot in the ancestor's list, or with the
\* ancestor's component.
C32_MatchingUsesAncestorsList ==
    (ucLast.op = "compile" /\ Len(ucLast.prefabs) > 1) =>
        LET root == ucLast.prefabs[Len(ucLast.prefabs)].components
        IN  /\ Len(ucLast.components) = Len(root)
            /\ \A k \in 1..Len(root) :
                  LET by == LevelsOnto(ucLast.prefabs, root, k) IN
                  ucLast.components[k] =
                      IF by = {} THEN root[k]
                      ELSE ValueOnto(ucLast.prefabs, root,
                                     CHOOSE l \in by : \A m \in by : l <= m, k)

\* The parent has replaced component 1 by one that carries identifier 2, and
\* the leaf's override for identifier 2 is in the slot of the root's
\* component 2, not in the slot the parent wrote.
C32_Witness ==
    /\ ucLast.op = "compile"
    /\ Len(ucLast.prefabs) = 3
    /\ ucLast.prefabs[3].components = <<RootComponent(1), RootComponent(2)>>
    /\ Overriders(ucLast.prefabs, 1) = {2}
    /\ Overriders(ucLast.prefabs, 2) = {1}
    /\ OverrideBy(ucLast.prefabs, 2, 1).id = 2
    /\ ucLast.components[1] = OverrideBy(ucLast.prefabs, 2, 1)
    /\ ucLast.components[2] = OverrideBy(ucLast.prefabs, 1, 2)

----------------------------------------------------------------------------
\* C33: the baseline of a resolved unit is the components array of the
\* ultimate ancestor of its chain, the first document with no prefab field:
\* the resolved list has as many entries as that array, each the ancestor's
\* component at that position or an override of it, and the components arrays
\* of the other levels contribute nothing.
C33_BaselineIsUltimateAncestor ==
    (/\ ucLast.op = "compile"
     /\ ucLast.error = "none"
     /\ ucLast.outcome # "crash")
        => LET ancestor == ucLast.prefabs[ucLast.num_prefabs]
           IN  /\ ~ancestor.has_prefab
               /\ \A level \in 1..(ucLast.num_prefabs - 1) :
                     ucLast.prefabs[level].has_prefab
               /\ Len(ucLast.components) = Len(ancestor.components)
               /\ \A k \in 1..Len(ucLast.components) :
                     \/ ucLast.components[k] = ancestor.components[k]
                     \/ \E level \in 1..ucLast.num_prefabs :
                           /\ ucLast.prefabs[level].has_modified_components
                           /\ \E n \in 1..Len(ucLast.prefabs[level].modified_components) :
                                 ucLast.components[k]
                                    = ucLast.prefabs[level].modified_components[n].value

----------------------------------------------------------------------------
\* The owner indices a step has appended under type t.
AppendedOwners(t) ==
    SubSeq(_component_data'[t]._unit_index, Len(_component_data[t]._unit_index) + 1,
           Len(_component_data'[t]._unit_index))

\* C34: a compile_unit call that ends without error advances _num_units by
\* exactly one, after it has recorded every component of the unit with the
\* value _num_units had before as owner index; so does the call for a unit
\* without components, which records nothing. The num_units field of the
\* header of blob() is the number of units compiled without error.
C34_CounterAdvancesOncePerUnit ==
    [][/\ (ucLast'.op = "compile" /\ ucLast'.error = "none") =>
            /\ _num_units' = _num_units + 1
            /\ units' = Append(units, ucLast'.components)
            /\ \A t \in DOMAIN _component_data :
                  /\ Len(AppendedOwners(t))
                        = Len(OfType(ucLast'.components, t))
                  /\ \A n \in 1..Len(AppendedOwners(t)) :
                        AppendedOwners(t)[n] = _num_units
            /\ ucLast'.components = <<>> => _component_data' = _component_data
       /\ (ucLast'.op = "compile" /\ ucLast'.error # "none") =>
            _num_units' = _num_units /\ units' = units
       /\ ucLast'.op = "blob" =>
            /\ U32At(out', 4) = Len(units)
            /\ _num_units' = Len(units)]_vars

\* The blob of two calls: a unit without components, then a unit whose two
\* components are owned by unit 1.
C34_Witness ==
    /\ ucLast.op = "blob"
    /\ Len(units) = 2
    /\ units[1] = <<>>
    /\ units[2] = <<Transform4, Camera4>>
    /\ _num_units = 2
    /\ U32At(out, 4) = 2
    /\ LET b == ReadBlob(out) IN
       \E i \in 1..Len(b.sections) :
          /\ b.sections[i].type = StringId32("camera")
          /\ b.sections[i].owners = <<1>>

----------------------------------------------------------------------------
\* The sequence a is the beginning of the sequence b.
IsPrefix(a, b) == Len(a) <= Len(b) /\ SubSeq(b, 1, Len(a)) = a

\* C35: for every registered component type the instance count is the length
\* of the owner-index array, the owner indices never decrease along the
\* array, and the count, the owner indices and the payload bytes change only
\* by growing at their end.
C35_CountMatchesOwnersAppendOnly ==
    [][\A t \in DOMAIN _component_data' :
          LET before == _component_data[t]
              after == _component_data'[t]
          IN  /\ after._num = Len(after._unit_index)
              /\ \A i, j \in 1..Len(after._unit_index) :
                    i <= j => after._unit_index[i] <= after._unit_index[j]
              /\ t \in DOMAIN _component_data
              /\ after._num >= before._num
              /\ IsPrefix(before._unit_index, after._unit_index)
              /\ IsPrefix(before._data, after._data)
              /\ after._compiler = before._compiler]_vars

\* The transform accumulator after a batch on a compiler that had compiled a
\* unit: three instances, owned by the units 0, 1 and 1 (the second of them
\* left behind by a unit that ended with an error).
C35_Witness ==
    /\ ucLast.op = "compile_multiple"
    /\ LET ctd == _component_data[StringId32("transform")]
       IN  /\ ctd._num = 3
           /\ ctd._unit_index = <<0, 1, 1>>
           /\ Len(ctd._data) = 12
    /\ aborts = 1
    /\ _num_units = 2

\* C36: in the blob returned by blob(), whatever units were compiled before
\* it (with or without a compile error), every owner index stored in a
\* section is strictly less than the num_units field of the header.
C36_OwnersBelowNumUnits ==
    ucLast.op = "blob" =>
        LET ur == ReadBlob(out)
        IN  \A s \in 1..Len(ur.sections) :
                \A i \in 1..ur.sections[s].num_instances :
                    ur.sections[s].owners[i] < ur.num_units

\* The offset a reader reaches after n sections when it starts at `offset`
\* and advances by sizeof(SectionHeader) + section_size from each section
\* header (-1 when a section header would not lie within the bytes).
RECURSIVE WalkBySizes(_, _, _)
WalkBySizes(bytes, offset, n) ==
    IF n = 0 THEN offset
    ELSE IF offset + SizeofComponentData > Len(bytes) THEN -1
    ELSE WalkBySizes(bytes,
                     offset + SizeofComponentData + U32At(bytes, offset + 2 * SizeofU32),
                     n - 1)

\* The offsets at which blob() begins the sections it writes, in the order
\* of _component_info, followed by the offset at which the last one ends.
RECURSIVE WrittenStartsFrom(_, _, _, _)
WrittenStartsFrom(cdata, info, i, offset) ==
    IF i > Len(info) THEN <<offset>>
    ELSE LET section == SectionBytes(info[i]._type,
                                     SortMapGet(cdata, info[i]._type, ComponentTypeData))
         IN  IF section = <<>>
             THEN WrittenStartsFrom(cdata, info, i + 1, offset)
             ELSE <<offset>> \o WrittenStartsFrom(cdata, info, i + 1, offset + Len(section))

\* C37: a reader that starts after the header of the blob and advances by
\* sizeof(SectionHeader) + section_size from each section header is, after k
\* sections, exactly where blob() began its k+1-th section, and after
\* num_component_types sections exactly at the end of the blob.
C37_WalkBySizesIsExact ==
    ucLast.op = "blob" =>
        LET num_component_types == U32At(out, 2 * SizeofU32)
            starts == WrittenStartsFrom(_component_data, _component_info, 1,
                                        SizeofUnitResource)
        IN  /\ Len(starts) = num_component_types + 1
            /\ \A k \in 0..num_component_types :
                  WalkBySizes(out, SizeofUnitResource, k) = starts[k + 1]
            /\ WalkBySizes(out, SizeofUnitResource, num_component_types) = Len(out)

\* A blob of three sections: the collider section of 1 payload byte takes 1
\* byte of padding and the camera section of two instances none.
C37_Witness ==
    /\ ucLast.op = "blob"
    /\ ReadBlob(out).num_component_types = 3
    /\ \E s \in 1..3 :
          /\ ReadBlob(out).sections[s].type = StringId32("collider")
          /\ Len(ReadBlob(out).sections[s].payload) = 2
    /\ \E s \in 1..3 :
          /\ ReadBlob(out).sections[s].type = StringId32("camera")
          /\ ReadBlob(out).sections[s].num_instances = 2

\* The members of the compiler after construction.
MembersConstructed ==
    [data |-> RegisterFirst[Len(Registrations)].data, num_units |-> 0,
     units |-> <<>>, aborts |-> 0, passed |-> <<>>]

\* compile_unit_from_json of the calls i.. of `calls` in turn, with no blob()
\* in between.
RECURSIVE CompileCallsFrom(_, _, _)
CompileCallsFrom(st, calls, i) ==
    IF i > Len(calls) THEN st
    ELSE CompileCallsFrom(CompileUnitFromJson(st, calls[i].prefabs), calls, i + 1)

\* C38: blob() leaves the unit counter, the registry and every accumulator
\* as they were; a blob() that follows a blob() returns the same bytes; and
\* the compiler is after every call in the state that its compile calls alone,
\* with no blob() among them, bring it to.
C38_BlobOnlyReads ==
    [][/\ ucLast'.op = "blob" =>
            /\ _num_units' = _num_units
            /\ _component_data' = _component_data
            /\ _component_info' = _component_info
            /\ ucLast.op = "blob" => out' = out
       /\ LET r == CompileCallsFrom(MembersConstructed, CallsOf(ucCalls', "compile"), 1)
          IN  /\ _component_data' = r.data
              /\ _num_units' = r.num_units
              /\ _component_info' = RegisterFirst[Len(Registrations)].info]_vars

\* A blob() returned after two units were compiled without error, with two
\* units in its header and two sections (reached also with a blob() between
\* the two compile calls and with a blob() before this one).
C38_Witness ==
    /\ ucLast.op = "blob"
    /\ Len(out) > SizeofUnitResource
    /\ ReadBlob(out).num_units = 2
    /\ ReadBlob(out).num_component_types = 2
    /\ aborts = 0

====
